---------------------------- MODULE Spec2Model ----------------------------
(***************************************************************************)
(* A model of the symbol-extraction engine of packs-rs:                    *)
(*   - calculate_module_nesting and the candidate expansion of a use,      *)
(*   - the strict syntax walker (ReferenceCollector in src/packs/parser.rs)*)
(*     with the same-file filtering pass of extract_from_contents,         *)
(*   - the resolvers' common lookup contract.                              *)
(*                                                                         *)
(* Text is modelled character by character: a string is a sequence of      *)
(* one-character strings, so "A::B" is <<"A", ":", ":", "B">>.  Constant   *)
(* names are single upper-case letters, which are legal Ruby constants.    *)
(***************************************************************************)
EXTENDS Integers, Sequences, FiniteSets, TLC

(***************************************************************************)
(* Bounds of the model.                                                    *)
(***************************************************************************)
MaxPath == 3

MaxNodes == 3

MaxDepth == 2

(***************************************************************************)
(* Strings.                                                                *)
(***************************************************************************)
Sep == <<":", ":">>

Nl == "\n"

RECURSIVE Join(_, _)
\* Vec<String>::join(sep)
Join(parts, sep) ==
    IF Len(parts) = 0 THEN <<>>
    ELSE IF Len(parts) = 1 THEN parts[1]
    ELSE parts[1] \o sep \o Join(Tail(parts), sep)

\* str::starts_with
StartsWith(s, prefix) ==
    /\ Len(s) >= Len(prefix)
    /\ SubSeq(s, 1, Len(prefix)) = prefix

RECURSIVE Repeat(_, _)
Repeat(s, n) == IF n = 0 THEN <<>> ELSE s \o Repeat(s, n - 1)

(***************************************************************************)
(* The Nesting Calculator and the candidate expansion.                     *)
(***************************************************************************)
RECURSIVE NestingFold(_, _, _)
\* The for_each closure of calculate_module_nesting: `previous` accumulates
\* the qualified prefix, every new value is inserted at index 0.
NestingFold(rest, previous, nesting) ==
    IF Len(rest) = 0 THEN nesting
    ELSE LET namespace == Head(rest)
             new_nesting == IF Len(previous) = 0 THEN namespace
                            ELSE previous \o Sep \o namespace
         IN  NestingFold(Tail(rest), new_nesting, <<new_nesting>> \o nesting)

calculate_module_nesting_append(namespace_nesting) ==
    LET RECURSIVE F(_, _, _)
        F(rest, previous, nesting) ==
            IF Len(rest) = 0 THEN nesting
            ELSE LET new_nesting == IF Len(previous) = 0 THEN Head(rest)
                                    ELSE previous \o Sep \o Head(rest)
                 IN  F(Tail(rest), new_nesting, Append(nesting, new_nesting))
    IN  F(namespace_nesting, <<>>, <<>>)

calculate_module_nesting(namespace_nesting) ==
    NestingFold(namespace_nesting, <<>>, <<>>)

possible_fully_qualified_constants_no_root_check(r) ==
    <<r.name>> \o
    [i \in 1..Len(calculate_module_nesting(r.namespace_path)) |->
        Sep \o calculate_module_nesting(r.namespace_path)[i] \o Sep \o r.name]

possible_fully_qualified_constants_outermost_first(r) ==
    IF StartsWith(r.name, Sep) THEN <<r.name>>
    ELSE LET module_nesting == calculate_module_nesting(r.namespace_path)
         IN  <<r.name>> \o
             [i \in 1..Len(module_nesting) |->
                 Sep \o module_nesting[Len(module_nesting) + 1 - i] \o Sep \o r.name]

\* Reference::possible_fully_qualified_constants
possible_fully_qualified_constants(r) ==
    IF StartsWith(r.name, Sep) THEN <<r.name>>
    ELSE LET module_nesting == calculate_module_nesting(r.namespace_path)
         IN  <<r.name>> \o
             [i \in 1..Len(module_nesting) |->
                 Sep \o module_nesting[i] \o Sep \o r.name]


(***************************************************************************)
(* Syntax-tree nodes.  A node is a record with a `type` field named after  *)
(* the lib_ruby_parser node kind; only the kinds the walker distinguishes  *)
(* are modelled.                                                           *)
(***************************************************************************)
NoNode == [type |-> "None"]

Cbase == [type |-> "Cbase"]

SelfNode == [type |-> "Self_"]

\* A method call without arguments used as a scope: described_class::Foo
DynSend == [type |-> "Send", method_name |-> <<"x">>, args |-> <<>>]

Const(scope, name) == [type |-> "Const", scope |-> scope, name |-> name]

Ids == {<<"A">>, <<"B">>}

\* The constant expressions the model draws from: A, B, A::B, ::A, x::A
StaticConsts ==
    {Const(NoNode, n) : n \in Ids}
        \cup {Const(Const(NoNode, <<"A">>), <<"B">>), Const(Cbase, <<"A">>)}

DynamicConsts == {Const(DynSend, <<"A">>)}

\* A class variable, a node kind fetch_const_name has no arm for
Cvar == [type |-> "Cvar", name |-> <<"@", "@", "a">>]

\* @@a::A: a constant whose scope is computed from a class variable
UnhandledConsts == {Const(Cvar, <<"A">>)}

RECURSIVE NodeText(_)
\* The source text of an expression node, as the parser read it.
NodeText(node) ==
    CASE node.type = "Const" ->
            IF node.scope.type = "None" THEN node.name
            ELSE NodeText(node.scope) \o Sep \o node.name
      [] node.type = "Cbase" -> <<>>
      [] node.type = "Self_" -> <<"s", "e", "l", "f">>
      [] node.type = "Send" ->
            IF Len(node.args) = 0 THEN node.method_name
            ELSE node.method_name \o <<"(">> \o NodeText(node.args[1]) \o <<")">>
      [] node.type = "Int" -> <<"1">>
      [] node.type = "Cvar" -> node.name
      [] OTHER -> <<>>

(***************************************************************************)
(* Static name resolution.  A result is [ok, name, panic]; ok = FALSE       *)
(* stands for Err(ParseError::Metaprogramming) when panic = FALSE, and for *)
(* the panic! of fetch_const_name, which unwinds through every caller and  *)
(* ends the walk, when panic = TRUE.                                       *)
(***************************************************************************)
Ok(name) == [ok |-> TRUE, name |-> name, panic |-> FALSE]

Metaprogramming == [ok |-> FALSE, name |-> <<>>, panic |-> FALSE]

Panic == [ok |-> FALSE, name |-> <<>>, panic |-> TRUE]

RECURSIVE fetch_const_name(_)
RECURSIVE fetch_const_const_name(_)
fetch_const_name(node) ==
    CASE node.type = "Const" -> fetch_const_const_name(node)
      [] node.type = "Cbase" -> Ok(<<>>)
      [] node.type \in {"Send", "Lvar", "Ivar", "Self_"} -> Metaprogramming
      [] OTHER -> Panic

fetch_const_const_name(node) ==
    IF node.scope.type # "None"
    THEN LET parent_namespace == fetch_const_name(node.scope)
         IN  IF parent_namespace.ok
             THEN Ok(parent_namespace.name \o Sep \o node.name)
             ELSE parent_namespace
    ELSE Ok(node.name)

(***************************************************************************)
(* Source positions.  A Loc is a pair of 0-based offsets into the text,    *)
(* the end exclusive.                                                      *)
(***************************************************************************)
Loc(begin, end) == [begin |-> begin, end |-> end]

SetMax(S) == CHOOSE x \in S : \A y \in S : y <= x

\* LineColLookup::get: the 1-based (line, column) of an offset
LineColGet(text, index) ==
    LET breaks == {j \in 1..index : text[j] = Nl}
        line_start == IF breaks = {} THEN 0 ELSE SetMax(breaks)
    IN  <<1 + Cardinality(breaks), index - line_start + 1>>

\* A variant that adjusts the end column like the start column
loc_to_range_end_adjusted(loc, text) ==
    LET start == LineColGet(text, loc.begin)
        end == LineColGet(text, loc.end)
    IN  [start_row |-> start[1],
         start_col |-> start[2] - 1,
         end_row |-> end[1],
         end_col |-> end[2] - 1]

loc_to_range(loc, text) ==
    LET start == LineColGet(text, loc.begin)
        end == LineColGet(text, loc.end)
    IN  [start_row |-> start[1],
         start_col |-> start[2] - 1,
         end_row |-> end[1],
         end_col |-> end[2]]

(***************************************************************************)
(* The strict walker: struct ReferenceCollector and its Visitor handlers.  *)
(* The handlers are operators on a collector record c; an action applies   *)
(* one handler to the node it draws and stores the record's fields.        *)
(***************************************************************************)
Reference(name, namespace_path, location) ==
    [name |-> name, namespace_path |-> namespace_path, location |-> location]

Definition(fully_qualified_name, namespace_path, location) ==
    [fully_qualified_name |-> fully_qualified_name,
     namespace_path |-> namespace_path,
     location |-> location]

SuperclassReference(name, namespace_path) ==
    [name |-> name, namespace_path |-> namespace_path]

\* Vec::pop: removes the last element, does nothing on an empty vector
Pop(v) == IF Len(v) = 0 THEN v ELSE SubSeq(v, 1, Len(v) - 1)

\* A variant that takes the last link of the name, the one recorded last
FindSuperclass_last(superclasses, name) ==
    LET hits == {i \in 1..Len(superclasses) : superclasses[i].name = name}
    IN  IF hits = {} THEN 0 ELSE CHOOSE i \in hits : \A j \in hits : j <= i

\* Iterator::find over the superclasses: the index of the first match, 0 if none
FindSuperclass(superclasses, name) ==
    LET hits == {i \in 1..Len(superclasses) : superclasses[i].name = name}
    IN  IF hits = {} THEN 0 ELSE CHOOSE i \in hits : \A j \in hits : i <= j

on_const_current_path(c, node, begin, text) ==
    LET result == fetch_const_const_name(node)
        name == result.name
        superclasses == IF c.in_superclass
                        THEN Append(c.superclasses,
                                    SuperclassReference(name, c.current_namespaces))
                        ELSE c.superclasses
    IN  IF ~result.ok THEN c
        ELSE [c EXCEPT
                !.superclasses = superclasses,
                !.references = Append(@,
                    Reference(name, c.current_namespaces,
                              loc_to_range(Loc(begin, begin + Len(NodeText(node))), text)))]

on_const(c, node, begin, text) ==
    LET result == fetch_const_const_name(node)
        name == result.name
        superclasses == IF c.in_superclass
                        THEN Append(c.superclasses,
                                    SuperclassReference(name, c.current_namespaces))
                        ELSE c.superclasses
        matching_superclass == FindSuperclass(superclasses, name)
        namespace_path ==
            IF matching_superclass # 0
            THEN superclasses[matching_superclass].namespace_path
            ELSE SelectSeq(c.current_namespaces,
                           LAMBDA namespace :
                               \/ namespace # name
                               \/ \E i \in 1..Len(superclasses) :
                                      superclasses[i].name = name)
    IN  IF ~result.ok THEN c
        ELSE [c EXCEPT
                !.superclasses = superclasses,
                !.references = Append(@,
                    Reference(name, namespace_path,
                              loc_to_range(Loc(begin, begin + Len(NodeText(node))), text)))]

\* The name of a declaration or of an assigned constant under the scope stack
fully_qualified_name_unanchored(current_namespaces, name) ==
    Join(Append(current_namespaces, name), Sep)

fully_qualified_name(current_namespaces, name) ==
    IF Len(current_namespaces) # 0
    THEN Sep \o Join(Append(current_namespaces, name), Sep)
    ELSE Sep \o name

(***************************************************************************)
(* inflector::cases::classcase::to_class_case, over the letters the model  *)
(* uses.  It camel-cases the text word by word (every non-alphanumeric     *)
(* character separates words and is dropped) and singularises the part     *)
(* from the last upper-case letter on.                                     *)
(***************************************************************************)
LowerCase == {"a", "b", "s"}

UpperCase == {"A", "B", "S"}

ToUpper(ch) ==
    CASE ch = "a" -> "A" [] ch = "b" -> "B" [] ch = "s" -> "S" [] OTHER -> ch

ToLower(ch) ==
    CASE ch = "A" -> "a" [] ch = "B" -> "b" [] ch = "S" -> "s" [] OTHER -> ch

IsNotAlphanumeric(ch) == ch \notin (LowerCase \cup UpperCase)

RECURSIVE TrimRight(_)
TrimRight(str) ==
    IF Len(str) > 0 /\ IsNotAlphanumeric(str[Len(str)])
    THEN TrimRight(SubSeq(str, 1, Len(str) - 1))
    ELSE str

RECURSIVE CamelFold(_, _)
\* The loop of to_case_camel_like under the options of to_class_case; st holds
\* new_word, last_char, found_real_char and result.
CamelFold(rest, st) ==
    IF Len(rest) = 0 THEN st.result
    ELSE LET character == Head(rest)
             next ==
                 IF IsNotAlphanumeric(character) /\ st.found_real_char
                 THEN [st EXCEPT !.new_word = TRUE]
                 ELSE IF ~st.found_real_char /\ IsNotAlphanumeric(character)
                 THEN st
                 ELSE IF \/ st.new_word
                         \/ (st.last_char \in LowerCase /\ character \in UpperCase)
                 THEN [st EXCEPT !.found_real_char = TRUE,
                                 !.new_word = FALSE,
                                 !.result = Append(@, ToUpper(character))]
                 ELSE [st EXCEPT !.found_real_char = TRUE,
                                 !.last_char = character,
                                 !.result = Append(@, ToLower(character))]
         IN  CamelFold(Tail(rest), next)

to_case_camel_like(str) ==
    CamelFold(TrimRight(str),
              [new_word |-> TRUE, last_char |-> " ",
               found_real_char |-> FALSE, result |-> <<>>])

\* to_singular on regular nouns: a final "s" that does not follow an "s" goes;
\* the rule takes any prefix, the empty one included, so "s" alone gives "".
to_singular(word) ==
    IF /\ Len(word) >= 1
       /\ word[Len(word)] = "s"
       /\ (Len(word) = 1 \/ word[Len(word) - 1] # "s")
    THEN SubSeq(word, 1, Len(word) - 1)
    ELSE word

to_class_case(str) ==
    LET class_plural == to_case_camel_like(str)
        uppers == {i \in 1..Len(class_plural) : class_plural[i] \in UpperCase}
        split == IF uppers = {} THEN 0 ELSE SetMax(uppers) - 1
    IN  SubSeq(class_plural, 1, split)
            \o to_singular(SubSeq(class_plural, split + 1, Len(class_plural)))

(***************************************************************************)
(* Call expressions and their arguments.                                   *)
(***************************************************************************)
Sym(name) == [type |-> "Sym", name |-> name]

Str(value) == [type |-> "Str", value |-> value]

IntLit == [type |-> "Int"]

Pair(key, value) == [type |-> "Pair", key |-> key, value |-> value]

Kwargs(pairs) == [type |-> "Kwargs", pairs |-> pairs]

\* The right-hand side of `.. = 1, B`
Array(elements) == [type |-> "Array", elements |-> elements]

Send(method_name, args) ==
    [type |-> "Send", method_name |-> method_name, args |-> args]

has_one == <<"h", "a", "s", "_", "o", "n", "e">>

has_many == <<"h", "a", "s", "_", "m", "a", "n", "y">>

belongs_to == <<"b", "e", "l", "o", "n", "g", "s", "_", "t", "o">>

has_and_belongs_to_many ==
    <<"h", "a", "s", "_", "a", "n", "d", "_">> \o belongs_to \o <<"_", "m", "a", "n", "y">>

class_name == <<"c", "l", "a", "s", "s", "_", "n", "a", "m", "e">>

puts == <<"p", "u", "t", "s">>

RECURSIVE ExprText(_)
RECURSIVE ArgsText(_)
\* The source text of an expression; a call is written without parentheses,
\* a keyword pair as `key: value`, a literal string in single quotes.
ExprText(node) ==
    CASE node.type = "Const" -> NodeText(node)
      [] node.type = "Sym" -> <<":">> \o node.name
      [] node.type = "Str" -> <<"'">> \o node.value \o <<"'">>
      [] node.type = "Int" -> <<"1">>
      [] node.type = "Pair" ->
            node.key.name \o <<":", " ">> \o ExprText(node.value)
      [] node.type = "Kwargs" -> ArgsText(node.pairs)
      [] node.type = "Array" -> ArgsText(node.elements)
      [] node.type = "Send" ->
            IF Len(node.args) = 0 THEN node.method_name
            ELSE node.method_name \o <<" ">> \o ArgsText(node.args)

ArgsText(args) ==
    IF Len(args) = 0 THEN <<>>
    ELSE IF Len(args) = 1 THEN ExprText(args[1])
    ELSE ExprText(args[1]) \o <<",", " ">> \o ArgsText(Tail(args))

\* The offset of the i-th of a list of expressions that starts at `begin`
ItemBegin(items, i, begin) ==
    begin + Len(ArgsText(SubSeq(items, 1, i - 1))) + (IF i > 1 THEN 2 ELSE 0)

Associations == {has_one, has_many, belongs_to, has_and_belongs_to_many}

\* The references on_send infers from a relationship declaration (the part of
\* on_send before it descends into the call).
AssociationReferences(c, node, begin, text) ==
    LET location == loc_to_range(Loc(begin, begin + Len(ExprText(node))), text)
        first_arg == IF Len(node.args) >= 1 THEN node.args[1] ELSE NoNode
        second_arg == IF Len(node.args) >= 2 THEN node.args[2] ELSE NoNode
        \* for pair_node in kwargs.pairs.iter(): one reference per class_name
        \* pair with a literal string value
        named == SelectSeq(second_arg.pairs,
                           LAMBDA pair :
                               /\ pair.type = "Pair"
                               /\ pair.key.type = "Sym"
                               /\ pair.key.name = class_name
                               /\ pair.value.type = "Str")
    IN  IF node.method_name \notin Associations THEN <<>>
        ELSE IF second_arg.type = "Kwargs"
        THEN [i \in 1..Len(named) |->
                 Reference(to_class_case(named[i].value.value),
                           c.current_namespaces, location)]
        ELSE IF first_arg.type = "Sym"
        THEN <<Reference(to_class_case(first_arg.name),
                         c.current_namespaces, location)>>
        ELSE <<>>

RECURSIVE visit(_, _, _, _)
RECURSIVE VisitItems(_, _, _, _, _)
RECURSIVE on_send(_, _, _, _)
\* Visitor::visit on an expression: the handler of the node's kind; a kind
\* without a handler is traversed into its children.
visit(c, node, begin, text) ==
    CASE node.type = "Const" -> on_const(c, node, begin, text)
      [] node.type = "Send" -> on_send(c, node, begin, text)
      [] node.type = "Kwargs" -> VisitItems(c, node.pairs, 1, begin, text)
      [] node.type = "Array" -> VisitItems(c, node.elements, 1, begin, text)
      [] node.type = "Pair" ->
            visit(c, node.value, begin + Len(node.key.name) + 2, text)
      [] OTHER -> c

\* The items of a comma-separated list from the i-th on, in order
VisitItems(c, items, i, begin, text) ==
    IF i > Len(items) THEN c
    ELSE VisitItems(visit(c, items[i], ItemBegin(items, i, begin), text),
                    items, i + 1, begin, text)

on_send(c, node, begin, text) ==
    LET inferred == AssociationReferences(c, node, begin, text)
        args_begin == begin + Len(node.method_name) + 1
    IN  VisitItems([c EXCEPT !.references = @ \o inferred],
                   node.args, 1, args_begin, text)

(***************************************************************************)
(* The local-filtering pass of extract_from_contents.                      *)
(***************************************************************************)
NoLocation == [start_row |-> 0, start_col |-> 0, end_row |-> 0, end_col |-> 0]

\* definition_to_location_map.get after the insert loop: HashMap::insert
\* replaces, so the last definition of a name decides.  found = FALSE is None.
MapGet(definitions, name) ==
    LET hits == {i \in 1..Len(definitions) :
                     definitions[i].fully_qualified_name = name}
    IN  IF hits = {} THEN [found |-> FALSE, location |-> NoLocation]
        ELSE [found |-> TRUE, location |-> definitions[SetMax(hits)].location]

\* get(&constant_name).or(get(&format!("::{}", constant_name)))
MapGetOr_exact_only(definitions, constant_name) ==
    MapGet(definitions, constant_name)

MapGetOr(definitions, constant_name) ==
    IF MapGet(definitions, constant_name).found
    THEN MapGet(definitions, constant_name)
    ELSE MapGet(definitions, Sep \o constant_name)

RECURSIVE ShouldIgnoreFold(_, _, _, _)
\* The loop over possible_constants: every candidate found in the map
\* overwrites should_ignore_local_reference.
ShouldIgnoreFold(possible_constants, r, definitions, should_ignore) ==
    IF Len(possible_constants) = 0 THEN should_ignore
    ELSE LET hit == MapGetOr(definitions, Head(possible_constants))
             reference_is_definition ==
                 /\ hit.location.start_row = r.location.start_row
                 /\ hit.location.start_col = r.location.start_col
         IN  ShouldIgnoreFold(Tail(possible_constants), r, definitions,
                              IF hit.found THEN ~reference_is_definition
                              ELSE should_ignore)

should_ignore_local_reference(r, definitions) ==
    ShouldIgnoreFold(possible_fully_qualified_constants(r), r, definitions, FALSE)

\* A variant of the filter that drops a use when the name of some definition
\* ends with its name
FilterLocal_by_last_segments(references, definitions) ==
    SelectSeq(references,
              LAMBDA r :
                  \A i \in 1..Len(definitions) :
                      LET d == definitions[i].fully_qualified_name
                          n == Sep \o r.name
                      IN  \/ Len(d) < Len(n)
                          \/ SubSeq(d, Len(d) - Len(n) + 1, Len(d)) # n)

\* collector.references.into_iter().filter(..).collect()
FilterLocal(references, definitions) ==
    SelectSeq(references,
              LAMBDA r : ~should_ignore_local_reference(r, definitions))

(***************************************************************************)
(* The state of one run of extract_from_contents.                          *)
(***************************************************************************)
VARIABLES
    contents,            \* the text of the file, as far as the walk has come
    frames,              \* the declarations whose body is being traversed
    log,                 \* the statements visited so far, with their context
    references,          \* ReferenceCollector.references
    definitions,         \* ReferenceCollector.definitions
    current_namespaces,  \* ReferenceCollector.current_namespaces
    in_superclass,       \* ReferenceCollector.in_superclass
    superclasses,        \* ReferenceCollector.superclasses
    result,              \* the value extract_from_contents returns
    pc,                  \* "walk" while the tree is traversed, then "done"
    use,                 \* the SymbolUse handed to the lookup functions
    strategy,            \* the resolver in use: its strategy
    backing,             \* the backing map of the resolver in use
    nesting,             \* what calculate_module_nesting returned
    candidates,          \* what possible_fully_qualified_constants returned
    resolved,            \* what Resolver.resolve returned
    stage,               \* how far the lookup of `use` has come
    front,               \* the front end at work: "strict", "ruby" or "erb"
    file_path,           \* the path handed to a lightweight front end
    behavioral_change_in_namespace,
                         \* the flag of the lightweight ReferenceCollector
    file_result,         \* the ProcessedFile a lightweight front end returns
    tasks,               \* per entry of the enumeration: how far its walk has
                         \* come, and the collector of that walk
    collected,           \* the uses get_references has collected so far
    status,              \* of a run over many files
    workers,             \* the number of threads of the parallel iterator
    span_loc,            \* the Loc handed to loc_to_range
    span_range           \* the Range loc_to_range returned for it

wvars == <<contents, frames, log, references, definitions, current_namespaces,
           in_superclass, superclasses, result, pc>>

lvars == <<use, strategy, backing, nesting, candidates, resolved, stage>>

xvars == <<front, file_path, behavioral_change_in_namespace, file_result>>

rvars == <<tasks, collected, status, workers>>

svars == <<span_loc, span_range>>

vars == <<wvars, lvars, xvars, rvars, svars>>

Collector ==
    [references |-> references,
     definitions |-> definitions,
     current_namespaces |-> current_namespaces,
     in_superclass |-> in_superclass,
     superclasses |-> superclasses]

Store(c) ==
    /\ references' = c.references
    /\ definitions' = c.definitions
    /\ current_namespaces' = c.current_namespaces
    /\ in_superclass' = c.in_superclass
    /\ superclasses' = c.superclasses

\* One statement per line, indented by two spaces per open declaration
Indent(depth) == Repeat(<<" ", " ">>, depth)

Line(depth, text) == Indent(depth) \o text \o <<Nl>>

StmtBegin == Len(contents) + 2 * Len(frames)

\* The declared names that lexically enclose the next statement
LexNames == [i \in 1..Len(frames) |-> frames[i].name]

\* The superclass declarations of the classes that enclose the next statement
LexLinks ==
    LET classes == SelectSeq(frames, LAMBDA f : Len(f.super_name) > 0)
    IN  [i \in 1..Len(classes) |->
            SuperclassReference(classes[i].super_name, classes[i].super_path)]

KwClass == <<"c", "l", "a", "s", "s", " ">>

KwModule == <<"m", "o", "d", "u", "l", "e", " ">>

KwEnd == <<"e", "n", "d">>

KwLt == <<" ", "<", " ">>

LogEntry(kind, name, loc, super_name, super_loc) ==
    [kind |-> kind, name |-> name, lex |-> LexNames, links |-> LexLinks,
     loc |-> loc, super_name |-> super_name, super_loc |-> super_loc]

NoLoc == Loc(0, 0)

NotFound == [found |-> FALSE, symbol |-> <<>>]

NoUse == [name |-> <<>>, namespace_path |-> <<>>, location |-> NoLocation]

WalkInit ==
    /\ contents = <<>>
    /\ frames = <<>>
    /\ log = <<>>
    /\ references = <<>>
    /\ definitions = <<>>
    /\ current_namespaces = <<>>
    /\ in_superclass = FALSE
    /\ superclasses = <<>>
    /\ result = <<>>
    /\ pc = "walk"

\* No lookup is under way
LookupIdle ==
    /\ use = NoUse
    /\ strategy = "none"
    /\ backing = <<>>
    /\ nesting = <<>>
    /\ candidates = <<>>
    /\ resolved = NotFound
    /\ stage = "idle"

NoFileResult ==
    [absolute_path |-> <<>>, unresolved_references |-> <<>>, definitions |-> <<>>]

\* No span is being computed on its own
SpanIdle ==
    /\ span_loc = [begin |-> 0, end |-> 0]
    /\ span_range = NoLocation

\* No run over many files is under way
RunIdle ==
    /\ tasks = <<>>
    /\ collected = <<>>
    /\ status = "idle"
    /\ workers = 0

Init ==
    /\ WalkInit
    /\ front = "strict"
    /\ file_path = <<>>
    /\ behavioral_change_in_namespace = FALSE
    /\ file_result = NoFileResult
    /\ LookupIdle
    /\ SpanIdle
    /\ RunIdle

\* The strict walker is traversing the tree
Strict == front = "strict" /\ pc = "walk"

CanVisit == Strict /\ Len(log) < MaxNodes

\* on_class up to the traversal of the body
OnClass(name_node, superclass) ==
    /\ CanVisit
    /\ Len(frames) < MaxDepth
    /\ LET header == KwClass \o NodeText(name_node)
                        \o (IF superclass.type = "None" THEN <<>>
                            ELSE KwLt \o ExprText(superclass))
           text == contents \o Line(Len(frames), header)
           name_loc == Loc(StmtBegin + 6, StmtBegin + 6 + Len(NodeText(name_node)))
           super_loc == Loc(name_loc.end + 3,
                            name_loc.end + 3 + Len(ExprText(superclass)))
           namespace_result == fetch_const_name(name_node)
           namespace == namespace_result.name
           super_result == IF superclass.type = "Const"
                           THEN fetch_const_const_name(superclass)
                           ELSE Metaprogramming
           c1 == IF superclass.type # "None"
                 THEN [visit([Collector EXCEPT !.in_superclass = TRUE],
                             superclass, super_loc.begin, text)
                         EXCEPT !.in_superclass = FALSE]
                 ELSE Collector
           fqn == fully_qualified_name(c1.current_namespaces, namespace)
           pushed == Append(c1.current_namespaces, namespace)
           location == loc_to_range(name_loc, text)
       IN  IF ~namespace_result.ok
           THEN /\ contents' = text \o Line(Len(frames), KwEnd)
                /\ log' = Append(log, LogEntry("skipped_class", <<>>, name_loc, <<>>, NoLoc))
                /\ UNCHANGED <<frames, references, definitions, current_namespaces,
                               in_superclass, superclasses>>
           ELSE /\ contents' = text
                /\ Store([c1 EXCEPT
                            !.current_namespaces = pushed,
                            !.definitions = Append(@, Definition(fqn, pushed, location)),
                            !.references = Append(@, Reference(fqn, pushed, location))])
                /\ frames' = Append(frames,
                                    [kind |-> "class", name |-> namespace,
                                     super_name |-> super_result.name,
                                     super_path |-> LexNames])
                /\ log' = Append(log,
                                 LogEntry("class", namespace, name_loc,
                                          super_result.name,
                                          IF superclass.type = "None" THEN NoLoc
                                          ELSE super_loc))
    /\ UNCHANGED <<result, pc>>
    /\ UNCHANGED <<lvars, xvars, rvars, svars>>

\* A variant of the exit of a class that leaves the scope stack as it is
ClassExit_keep_namespace(c) == [c EXCEPT !.superclasses = Pop(@)]

\* on_class after the traversal of the body
ClassExit(c) ==
    [c EXCEPT !.current_namespaces = Pop(@), !.superclasses = Pop(@)]

OnClassExit ==
    /\ Strict
    /\ Len(frames) > 0
    /\ frames[Len(frames)].kind = "class"
    /\ contents' = contents \o Line(Len(frames) - 1, KwEnd)
    /\ Store(ClassExit(Collector))
    /\ frames' = Pop(frames)
    /\ UNCHANGED <<log, result, pc>>
    /\ UNCHANGED <<lvars, xvars, rvars, svars>>

\* on_module up to the traversal of the body; fetch_const_name(..).expect(..)
\* panics when the name is dynamic
OnModule(name_node) ==
    /\ CanVisit
    /\ Len(frames) < MaxDepth
    /\ LET header == KwModule \o NodeText(name_node)
           text == contents \o Line(Len(frames), header)
           name_loc == Loc(StmtBegin + 7, StmtBegin + 7 + Len(NodeText(name_node)))
           namespace_result == fetch_const_name(name_node)
           namespace == namespace_result.name
           fqn == fully_qualified_name(current_namespaces, namespace)
           pushed == Append(current_namespaces, namespace)
           location == loc_to_range(name_loc, text)
       IN  IF ~namespace_result.ok
           THEN /\ contents' = text \o Line(Len(frames), KwEnd)
                /\ log' = Append(log, LogEntry("skipped_module", <<>>, name_loc,
                                               <<>>, NoLoc))
                /\ pc' = "panic"
                /\ UNCHANGED <<frames, references, definitions, current_namespaces,
                               in_superclass, superclasses>>
           ELSE /\ contents' = text
                /\ Store([Collector EXCEPT
                             !.current_namespaces = pushed,
                             !.definitions = Append(@, Definition(fqn, pushed, location)),
                             !.references = Append(@, Reference(fqn, pushed, location))])
                /\ frames' = Append(frames,
                                    [kind |-> "module", name |-> namespace,
                                     super_name |-> <<>>, super_path |-> LexNames])
                /\ log' = Append(log, LogEntry("module", namespace, name_loc,
                                               <<>>, NoLoc))
                /\ pc' = pc
    /\ UNCHANGED result
    /\ UNCHANGED <<lvars, xvars, rvars, svars>>

\* on_module after the traversal of the body
OnModuleExit ==
    /\ Strict
    /\ Len(frames) > 0
    /\ frames[Len(frames)].kind = "module"
    /\ contents' = contents \o Line(Len(frames) - 1, KwEnd)
    /\ current_namespaces' = Pop(current_namespaces)
    /\ frames' = Pop(frames)
    /\ UNCHANGED <<log, references, definitions, in_superclass, superclasses,
                   result, pc>>
    /\ UNCHANGED <<lvars, xvars, rvars, svars>>

\* on_const for a constant that is a statement of its own; the panic of
\* fetch_const_name ends the walk with nothing returned
OnConst(node) ==
    /\ CanVisit
    /\ contents' = contents \o Line(Len(frames), NodeText(node))
    /\ Store(on_const(Collector, node, StmtBegin, contents'))
    /\ log' = Append(log,
                    LogEntry(IF fetch_const_const_name(node).ok THEN "const"
                             ELSE IF fetch_const_const_name(node).panic
                             THEN "unhandled_const"
                             ELSE "skipped_const",
                             fetch_const_const_name(node).name,
                             Loc(StmtBegin, StmtBegin + Len(NodeText(node))),
                             <<>>, NoLoc))
    /\ pc' = IF fetch_const_const_name(node).panic THEN "panic" ELSE pc
    /\ UNCHANGED <<frames, result>>
    /\ UNCHANGED <<lvars, xvars, rvars, svars>>

\* on_send for a call that is a statement of its own
OnSend(node) ==
    /\ CanVisit
    /\ contents' = contents \o Line(Len(frames), ExprText(node))
    /\ Store(on_send(Collector, node, StmtBegin, contents'))
    /\ log' = Append(log,
                    LogEntry("send", node.method_name,
                             Loc(StmtBegin, StmtBegin + Len(ExprText(node))),
                             <<>>, NoLoc))
    /\ UNCHANGED <<frames, result, pc>>
    /\ UNCHANGED <<lvars, xvars, rvars, svars>>

\* extract_from_contents after collector.visit(&ast)
Finish ==
    /\ Strict
    /\ Len(frames) = 0
    /\ result' = FilterLocal(references, definitions)
    /\ pc' = "done"
    /\ UNCHANGED <<contents, frames, log, references, definitions,
                   current_namespaces, in_superclass, superclasses>>
    /\ UNCHANGED <<lvars, xvars, rvars, svars>>

\* Texts for which the parser returns no tree: the empty text and a syntax
\* error
Unparsable == {<<>>, <<")", Nl>>}

\* extract_from_contents when parse_result.ast is None
ExtractNoTree ==
    /\ Strict
    /\ log = <<>>
    /\ \E text \in Unparsable : contents' = text
    /\ result' = <<>>
    /\ pc' = "no_tree"
    /\ UNCHANGED <<frames, log, references, definitions,
                   current_namespaces, in_superclass, superclasses>>
    /\ UNCHANGED <<lvars, xvars, rvars, svars>>

(***************************************************************************)
(* Constant assignment.                                                    *)
(***************************************************************************)
Casgn(scope, name, value) ==
    [type |-> "Casgn", scope |-> scope, name |-> name, value |-> value]

CasgnTarget(node) ==
    IF node.scope.type = "None" THEN node.name
    ELSE NodeText(node.scope) \o Sep \o node.name

\* A target of a multiple assignment has no value of its own
CasgnText(node) ==
    IF node.value.type = "None" THEN CasgnTarget(node)
    ELSE CasgnTarget(node) \o <<" ", "=", " ">> \o ExprText(node.value)

fetch_casgn_name(node) ==
    IF node.scope.type # "None"
    THEN LET parent_namespace == fetch_const_name(node.scope)
         IN  IF parent_namespace.ok
             THEN Ok(parent_namespace.name \o Sep \o node.name)
             ELSE parent_namespace
    ELSE Ok(node.name)

\* A variant that visits the value also when the target is dynamic
on_casgn_value_always(c, node, begin, text) ==
    LET name_result == fetch_casgn_name(node)
        fqn == fully_qualified_name(c.current_namespaces, name_result.name)
        expression_l == Loc(begin, begin + Len(CasgnText(node)))
        defined == IF ~name_result.ok THEN c
                   ELSE [c EXCEPT !.definitions =
                            Append(@, Definition(fqn, c.current_namespaces,
                                                 loc_to_range(expression_l, text)))]
    IN  IF node.value.type # "None"
        THEN visit(defined, node.value, begin + Len(CasgnTarget(node)) + 3, text)
        ELSE defined

on_casgn(c, node, begin, text) ==
    LET name_result == fetch_casgn_name(node)
        fqn == fully_qualified_name(c.current_namespaces, name_result.name)
        expression_l == Loc(begin, begin + Len(CasgnText(node)))
        defined == [c EXCEPT !.definitions =
                       Append(@, Definition(fqn, c.current_namespaces,
                                            loc_to_range(expression_l, text)))]
    IN  IF ~name_result.ok THEN c
        ELSE IF node.value.type # "None"
        THEN visit(defined, node.value, begin + Len(CasgnTarget(node)) + 3, text)
        ELSE defined

\* on_casgn for an assignment that is a statement of its own
OnCasgn(node) ==
    /\ CanVisit
    /\ contents' = contents \o Line(Len(frames), CasgnText(node))
    /\ Store(on_casgn(Collector, node, StmtBegin, contents'))
    /\ log' = Append(log,
                    LogEntry(IF fetch_casgn_name(node).ok THEN "casgn"
                             ELSE "skipped_casgn",
                             fetch_casgn_name(node).name,
                             Loc(StmtBegin, StmtBegin + Len(CasgnText(node))),
                             <<>>, NoLoc))
    /\ UNCHANGED <<frames, result, pc>>
    /\ UNCHANGED <<lvars, xvars, rvars, svars>>

\* A multiple assignment `A, B = 1, B`: lhs holds the targets, constant
\* assignments without a value, and rhs the values
Masgn(lhs, rhs) == [type |-> "Masgn", lhs |-> lhs, rhs |-> rhs]

RECURSIVE MlhsText(_)
MlhsText(items) ==
    IF Len(items) = 0 THEN <<>>
    ELSE IF Len(items) = 1 THEN CasgnText(items[1])
    ELSE CasgnText(items[1]) \o <<",", " ">> \o MlhsText(Tail(items))

MasgnText(node) == MlhsText(node.lhs) \o <<" ", "=", " ">> \o ExprText(node.rhs)

RECURSIVE VisitMlhs(_, _, _, _, _)
\* The targets of a multiple assignment from the i-th on, in order
VisitMlhs(c, items, i, begin, text) ==
    IF i > Len(items) THEN c
    ELSE VisitMlhs(on_casgn(c, items[i],
                            begin + Len(MlhsText(SubSeq(items, 1, i - 1)))
                                  + (IF i > 1 THEN 2 ELSE 0),
                            text),
                   items, i + 1, begin, text)

\* No handler is written for a multiple assignment: the Visitor's default
\* traverses its targets and then its right-hand side
visit_masgn(c, node, begin, text) ==
    visit(VisitMlhs(c, node.lhs, 1, begin, text), node.rhs,
          begin + Len(MlhsText(node.lhs)) + 3, text)

\* A multiple assignment that is a statement of its own
OnMasgn(node) ==
    /\ CanVisit
    /\ contents' = contents \o Line(Len(frames), MasgnText(node))
    /\ Store(visit_masgn(Collector, node, StmtBegin, contents'))
    /\ log' = Append(log,
                    LogEntry("masgn", <<>>,
                             Loc(StmtBegin, StmtBegin + Len(MasgnText(node))),
                             <<>>, NoLoc))
    /\ UNCHANGED <<frames, result, pc>>
    /\ UNCHANGED <<lvars, xvars, rvars, svars>>

(***************************************************************************)
(* The files the model walks: every sequence of at most MaxNodes of the    *)
(* statements below, nested at most MaxDepth deep.                         *)
(***************************************************************************)
PlainConsts == {Const(NoNode, n) : n \in Ids}

CompactConst == Const(Const(NoNode, <<"A">>), <<"B">>)

ClassNames == PlainConsts \cup {CompactConst} \cup DynamicConsts

Superclasses == {NoNode, Const(NoNode, <<"B">>)}

ModuleNames == PlainConsts \cup {CompactConst} \cup DynamicConsts

\* The references that are statements: the static ones, x::A, @@a::A, and
\* x(B)::A, whose scope is a call with a constant for its argument.  Of the
\* nodes the model draws only a reference that is a statement has a scope
\* fetch_const_name panics on.
ConstStatements ==
    StaticConsts \cup DynamicConsts \cup UnhandledConsts
        \cup {Const([DynSend EXCEPT !.args = <<Const(NoNode, <<"B">>)>>], <<"A">>)}

CasgnStatements ==
    {Casgn(NoNode, <<"A">>, IntLit), Casgn(NoNode, <<"B">>, Const(NoNode, <<"A">>)),
     Casgn(DynSend, <<"A">>, Const(NoNode, <<"B">>)),
     Casgn(Cbase, <<"A">>, IntLit)}

MasgnStatements ==
    {Masgn(<<Casgn(NoNode, <<"A">>, NoNode), Casgn(NoNode, <<"B">>, NoNode)>>,
           Array(<<IntLit, Const(NoNode, <<"B">>)>>))}

a_bs == <<"a", "_", "b", "s">>

\* The argument lists of a relationship declaration: a symbol alone, a symbol
\* with class_name: '<literal>', with another keyword, with a class_name that
\* is no literal, and a first argument that is no symbol.
ArgumentLists ==
    { <<Sym(a_bs)>>,
      <<Sym(a_bs), Kwargs(<<Pair(Sym(class_name), Str(<<"B">>))>>)>>,
      <<Sym(<<"a">>), Kwargs(<<Pair(Sym(class_name), Str(a_bs))>>)>>,
      <<Sym(<<"a">>), Kwargs(<<Pair(Sym(class_name),
                                    Str(<<"A", ":", ":", "B">>))>>)>>,
      <<Sym(a_bs), Kwargs(<<Pair(Sym(<<"b">>), Sym(<<"a">>))>>)>>,
      <<Sym(a_bs), Kwargs(<<Pair(Sym(class_name), Const(NoNode, <<"A">>))>>)>>,
      <<Str(<<"a">>)>> }

SendStatements ==
    {Send(has_one, args) : args \in ArgumentLists}
        \cup {Send(m, <<Sym(a_bs)>>) : m \in Associations \cup {puts}}
        \cup {Send(puts, <<Const(NoNode, <<"B">>)>>)}

Next ==
    \/ \E name_node \in ClassNames, superclass \in Superclasses :
           OnClass(name_node, superclass)
    \/ OnClassExit
    \/ \E name_node \in ModuleNames : OnModule(name_node)
    \/ OnModuleExit
    \/ \E node \in ConstStatements : OnConst(node)
    \/ \E node \in SendStatements : OnSend(node)
    \/ \E node \in CasgnStatements : OnCasgn(node)
    \/ \E node \in MasgnStatements : OnMasgn(node)
    \/ Finish
    \/ ExtractNoTree

Spec == Init /\ [][Next]_vars

(***************************************************************************)
(* The resolvers.  A resolver is a backing map from fully-qualified names  *)
(* to ResolvedSymbols, built once; resolve expands a use into its          *)
(* candidates and returns the symbol of the first candidate found in the   *)
(* map.  The Path-Convention Resolver finds a candidate that is a key; the *)
(* Aggregated-Definitions Resolver probes the key and then falls back to   *)
(* the root-anchored variant of the key.                                   *)
(***************************************************************************)
ResolvedSymbol(name, path) ==
    [fully_qualified_name |-> name, absolute_path_of_definition |-> path]

Capitalize(segment) == <<ToUpper(Head(segment))>> \o Tail(segment)

\* Path-Convention Resolver: a file at root/a/b defines ::A::B
PathConventionName(path) ==
    Sep \o Join([i \in 1..Len(path) |-> Capitalize(path[i])], Sep)

BuildPathConventionResolver(paths) ==
    [name \in {PathConventionName(path) : path \in paths} |->
        ResolvedSymbol(name, CHOOSE path \in paths : PathConventionName(path) = name)]

\* Aggregated-Definitions Resolver: every definition of every FileResult,
\* keyed by its fully-qualified name
BuildDefinitionsResolver(file_results) ==
    LET defined == UNION {{<<f.absolute_path, d>> : d \in f.definitions} :
                              f \in file_results}
    IN  [name \in {e[2] : e \in defined} |->
            ResolvedSymbol(name, (CHOOSE e \in defined : e[2] = name)[1])]

Found(symbol) == [found |-> TRUE, symbol |-> symbol]

Strategies == {"path_convention", "aggregated_definitions"}

\* The lookup of one key in the backing map of a resolver
Probe(kind, map, key) ==
    IF key \in DOMAIN map THEN Found(map[key])
    ELSE IF kind = "aggregated_definitions" /\ Sep \o key \in DOMAIN map
    THEN Found(map[Sep \o key])
    ELSE NotFound

\* Resolver.resolve
resolve(kind, map, u) ==
    LET possible_constants == possible_fully_qualified_constants(u)
        hits == {i \in 1..Len(possible_constants) :
                     Probe(kind, map, possible_constants[i]).found}
    IN  IF hits = {} THEN NotFound
        ELSE Probe(kind, map, possible_constants[CHOOSE i \in hits :
                                                     \A j \in hits : i <= j])

(***************************************************************************)
(* The lookup of one use: the inputs are drawn at the start, then the      *)
(* nesting calculator, the candidate expansion and the resolver run.       *)
(***************************************************************************)
ScopeNames == Ids \cup {<<"A", ":", ":", "B">>}

UseNames == Ids \cup {<<"A", ":", ":", "B">>, <<":", ":", "A">>}

RECURSIVE SeqsUpTo(_, _)
SeqsUpTo(S, n) ==
    IF n = 0 THEN {<<>>}
    ELSE SeqsUpTo(S, n - 1)
            \cup {Append(q, x) : q \in {t \in SeqsUpTo(S, n - 1) : Len(t) = n - 1},
                                 x \in S}

ScopePaths == SeqsUpTo(ScopeNames, MaxPath)

\* The files of a code base under the path convention: a.rb, b.rb, a/b.rb,
\* a/a/b.rb
ConventionPaths ==
    { << <<"a">> >>, << <<"b">> >>, << <<"a">>, <<"b">> >>,
      << <<"a">>, <<"a">>, <<"b">> >> }

\* The FileResults of a code base: their definitions do not overlap
FileResults ==
    { [absolute_path |-> << <<"f">> >>,
       definitions |-> {<<":", ":", "A">>, <<":", ":", "A", ":", ":", "B">>}],
      [absolute_path |-> << <<"g">> >>,
       definitions |-> {<<":", ":", "B">>}],
      [absolute_path |-> << <<"h">> >>,
       definitions |-> {<<":", ":", "B", ":", ":", "A">>,
                        <<":", ":", "A", ":", ":", "B", ":", ":", "A">>}] }

BackingMaps(kind) ==
    IF kind = "path_convention"
    THEN {BuildPathConventionResolver(paths) : paths \in SUBSET ConventionPaths}
    ELSE {BuildDefinitionsResolver(files) : files \in SUBSET FileResults}

InitLookup ==
    /\ WalkInit
    /\ front = "strict"
    /\ file_path = <<>>
    /\ behavioral_change_in_namespace = FALSE
    /\ file_result = NoFileResult
    /\ RunIdle
    /\ SpanIdle
    /\ use \in {Reference(name, path, NoLocation) :
                    name \in UseNames, path \in ScopePaths}
    /\ strategy \in Strategies
    /\ backing \in BackingMaps(strategy)
    /\ nesting = <<>>
    /\ candidates = <<>>
    /\ resolved = NotFound
    /\ stage = "drawn"

Nest ==
    /\ stage = "drawn"
    /\ nesting' = calculate_module_nesting(use.namespace_path)
    /\ stage' = "nested"
    /\ UNCHANGED <<use, strategy, backing, candidates, resolved>>
    /\ UNCHANGED <<wvars, xvars, rvars, svars>>

Expand ==
    /\ stage = "nested"
    /\ candidates' = possible_fully_qualified_constants(use)
    /\ stage' = "expanded"
    /\ UNCHANGED <<use, strategy, backing, nesting, resolved>>
    /\ UNCHANGED <<wvars, xvars, rvars, svars>>

Resolve ==
    /\ stage = "expanded"
    /\ resolved' = resolve(strategy, backing, use)
    /\ stage' = "resolved"
    /\ UNCHANGED <<use, strategy, backing, nesting, candidates>>
    /\ UNCHANGED <<wvars, xvars, rvars, svars>>

NextLookup == Nest \/ Expand \/ Resolve

SpecLookup == InitLookup /\ [][NextLookup]_vars

(***************************************************************************)
(* The lightweight walker (parsing/ruby/experimental/parser.rs) and the    *)
(* template front end (parsing/erb/experimental/parser.rs).  The helpers   *)
(* they import from parse_utils and file_utils are not among the sources   *)
(* at hand: the name resolution and the span computation are those of      *)
(* parser.rs, get_definition_from and the inference from relationship      *)
(* declarations follow the design document, and the walker is run on the   *)
(* text the transliteration of a template has produced.                    *)
(***************************************************************************)
UnresolvedReference(name, namespace_path, location) ==
    [name |-> name, namespace_path |-> namespace_path, location |-> location]

ParsedDefinition(fully_qualified_name_, location) ==
    [fully_qualified_name |-> fully_qualified_name_, location |-> location]

ProcessedFile(absolute_path, unresolved_references, definitions_) ==
    [absolute_path |-> absolute_path,
     unresolved_references |-> unresolved_references,
     definitions |-> definitions_]

\* Range::default()
RangeDefault == [start_row |-> 0, start_col |-> 0, end_row |-> 0, end_col |-> 0]

\* The root-anchored name of a declaration under the scope stack, at the span
\* of its name
get_definition_from(namespace, namespaces, location) ==
    ParsedDefinition(fully_qualified_name(namespaces, namespace), location)

\* The use inferred from a relationship declaration, if any: the literal of a
\* class_name entry as it stands, else the class case of the first symbol
get_reference_from_active_record_association(node, namespaces, location) ==
    LET pairs == IF Len(node.args) > 0 /\ node.args[Len(node.args)].type = "Kwargs"
                 THEN node.args[Len(node.args)].pairs
                 ELSE <<>>
        named == SelectSeq(pairs,
                           LAMBDA pair : /\ pair.key.type = "Sym"
                                         /\ pair.key.name = class_name
                                         /\ pair.value.type = "Str")
    IN  IF node.method_name \notin Associations THEN <<>>
        ELSE IF Len(named) > 0
        THEN <<UnresolvedReference(named[1].value.value, namespaces, location)>>
        ELSE IF Len(node.args) > 0 /\ node.args[1].type = "Sym"
        THEN <<UnresolvedReference(to_class_case(node.args[1].name),
                                   namespaces, location)>>
        ELSE <<>>

\* The lightweight ReferenceCollector
ExperimentalCollector ==
    [references |-> references,
     definitions |-> definitions,
     current_namespaces |-> current_namespaces,
     behavioral_change_in_namespace |-> behavioral_change_in_namespace]

ExperimentalStore(c) ==
    /\ references' = c.references
    /\ definitions' = c.definitions
    /\ current_namespaces' = c.current_namespaces
    /\ behavioral_change_in_namespace' = c.behavioral_change_in_namespace

\* on_const of the lightweight walker
experimental_on_const(c, node, begin, text) ==
    LET name_result == fetch_const_const_name(node)
        name == name_result.name
        namespace_path == SelectSeq(c.current_namespaces,
                                    LAMBDA namespace : namespace # name)
    IN  IF ~name_result.ok THEN c
        ELSE [c EXCEPT !.references = Append(@,
                 UnresolvedReference(name, namespace_path,
                     loc_to_range(Loc(begin, begin + Len(NodeText(node))), text)))]

RECURSIVE experimental_visit(_, _, _, _)
RECURSIVE ExperimentalVisitItems(_, _, _, _, _)
RECURSIVE experimental_on_send(_, _, _, _)
\* Visitor::visit of the lightweight walker on an expression
experimental_visit(c, node, begin, text) ==
    CASE node.type = "Const" -> experimental_on_const(c, node, begin, text)
      [] node.type = "Send" -> experimental_on_send(c, node, begin, text)
      [] node.type = "Kwargs" -> ExperimentalVisitItems(c, node.pairs, 1, begin, text)
      [] node.type = "Array" -> ExperimentalVisitItems(c, node.elements, 1, begin, text)
      [] node.type = "Pair" ->
            experimental_visit(c, node.value, begin + Len(node.key.name) + 2, text)
      [] OTHER -> c

ExperimentalVisitItems(c, items, i, begin, text) ==
    IF i > Len(items) THEN c
    ELSE ExperimentalVisitItems(
             experimental_visit(c, items[i], ItemBegin(items, i, begin), text),
             items, i + 1, begin, text)

\* on_send of the lightweight walker
experimental_on_send(c, node, begin, text) ==
    LET association_reference ==
            get_reference_from_active_record_association(
                node, c.current_namespaces,
                loc_to_range(Loc(begin, begin + Len(ExprText(node))), text))
    IN  ExperimentalVisitItems([c EXCEPT !.references = @ \o association_reference],
                               node.args, 1, begin + Len(node.method_name) + 1, text)

\* on_casgn of the lightweight walker
experimental_on_casgn(c, node, begin, text) ==
    LET name_result == fetch_casgn_name(node)
        fqn == fully_qualified_name(c.current_namespaces, name_result.name)
        expression_l == Loc(begin, begin + Len(CasgnText(node)))
        defined == [c EXCEPT !.definitions =
                       Append(@, ParsedDefinition(fqn, loc_to_range(expression_l, text)))]
    IN  IF ~name_result.ok THEN c
        ELSE IF node.value.type # "None"
        THEN experimental_visit(defined, node.value,
                                begin + Len(CasgnTarget(node)) + 3, text)
        ELSE defined

RECURSIVE ExperimentalVisitMlhs(_, _, _, _, _)
ExperimentalVisitMlhs(c, items, i, begin, text) ==
    IF i > Len(items) THEN c
    ELSE ExperimentalVisitMlhs(
             experimental_on_casgn(c, items[i],
                                   begin + Len(MlhsText(SubSeq(items, 1, i - 1)))
                                         + (IF i > 1 THEN 2 ELSE 0),
                                   text),
             items, i + 1, begin, text)

\* The default traversal of a multiple assignment by the lightweight walker
experimental_visit_masgn(c, node, begin, text) ==
    experimental_visit(ExperimentalVisitMlhs(c, node.lhs, 1, begin, text), node.rhs,
                       begin + Len(MlhsText(node.lhs)) + 3, text)

\* on_def: a method definition, here one without a body
experimental_on_def(c) == [c EXCEPT !.behavioral_change_in_namespace = TRUE]

\* on_class and on_module after the traversal of the body
ExperimentalScopeExit(c, definition) ==
    [c EXCEPT !.definitions = IF c.behavioral_change_in_namespace
                              THEN Append(@, definition) ELSE @,
              !.behavioral_change_in_namespace = FALSE,
              !.current_namespaces = Pop(@)]

\* The lightweight walker is traversing the tree, of a source file or of
\* the transliteration of a template
Experimental == front \in {"ruby", "erb"} /\ pc = "walk"

ExperimentalCanVisit == Experimental /\ Len(log) < MaxNodes

KwDef == <<"d", "e", "f", " ", "a", ";", " ", "e", "n", "d">>

\* on_class of the lightweight walker up to the traversal of the body
ExperimentalOnClass(name_node, superclass) ==
    /\ ExperimentalCanVisit
    /\ Len(frames) < MaxDepth
    /\ LET header == KwClass \o NodeText(name_node)
                        \o (IF superclass.type = "None" THEN <<>>
                            ELSE KwLt \o ExprText(superclass))
           text == contents \o Line(Len(frames), header)
           name_loc == Loc(StmtBegin + 6, StmtBegin + 6 + Len(NodeText(name_node)))
           super_loc == Loc(name_loc.end + 3,
                            name_loc.end + 3 + Len(ExprText(superclass)))
           namespace_result == fetch_const_name(name_node)
           namespace == namespace_result.name
           c1 == IF superclass.type # "None"
                 THEN experimental_visit(ExperimentalCollector, superclass,
                                         super_loc.begin, text)
                 ELSE ExperimentalCollector
           location == loc_to_range(name_loc, text)
           definition == get_definition_from(namespace, c1.current_namespaces, location)
       IN  IF ~namespace_result.ok
           THEN /\ contents' = text \o Line(Len(frames), KwEnd)
                /\ log' = Append(log, LogEntry("skipped_class", <<>>, name_loc, <<>>, NoLoc))
                /\ UNCHANGED <<frames, references, definitions, current_namespaces,
                               behavioral_change_in_namespace>>
           ELSE /\ contents' = text
                /\ ExperimentalStore([c1 EXCEPT
                       !.current_namespaces = Append(@, namespace)])
                /\ frames' = Append(frames,
                                    [kind |-> "class", name |-> namespace,
                                     super_name |-> <<>>, super_path |-> <<>>,
                                     definition |-> definition])
                /\ log' = Append(log, LogEntry("class", namespace, name_loc,
                                               <<>>, NoLoc))
    /\ UNCHANGED <<in_superclass, superclasses, result, pc>>
    /\ UNCHANGED <<front, file_path, file_result>>
    /\ UNCHANGED <<lvars, rvars, svars>>

\* on_module of the lightweight walker up to the traversal of the body
ExperimentalOnModule(name_node) ==
    /\ ExperimentalCanVisit
    /\ Len(frames) < MaxDepth
    /\ LET header == KwModule \o NodeText(name_node)
           text == contents \o Line(Len(frames), header)
           name_loc == Loc(StmtBegin + 7, StmtBegin + 7 + Len(NodeText(name_node)))
           namespace_result == fetch_const_name(name_node)
           namespace == namespace_result.name
           location == loc_to_range(name_loc, text)
           definition == get_definition_from(namespace, current_namespaces, location)
       IN  IF ~namespace_result.ok
           THEN /\ contents' = text \o Line(Len(frames), KwEnd)
                /\ log' = Append(log, LogEntry("skipped_module", <<>>, name_loc,
                                               <<>>, NoLoc))
                /\ pc' = "panic"
                /\ UNCHANGED <<frames, references, definitions, current_namespaces,
                               behavioral_change_in_namespace>>
           ELSE /\ contents' = text
                /\ ExperimentalStore([ExperimentalCollector EXCEPT
                       !.current_namespaces = Append(@, namespace)])
                /\ frames' = Append(frames,
                                    [kind |-> "module", name |-> namespace,
                                     super_name |-> <<>>, super_path |-> <<>>,
                                     definition |-> definition])
                /\ log' = Append(log, LogEntry("module", namespace, name_loc,
                                               <<>>, NoLoc))
                /\ pc' = pc
    /\ UNCHANGED <<in_superclass, superclasses, result>>
    /\ UNCHANGED <<front, file_path, file_result>>
    /\ UNCHANGED <<lvars, rvars, svars>>

\* on_class and on_module of the lightweight walker after the traversal of
\* the body
ExperimentalOnScopeExit ==
    /\ Experimental
    /\ Len(frames) > 0
    /\ contents' = contents \o Line(Len(frames) - 1, KwEnd)
    /\ ExperimentalStore(ExperimentalScopeExit(ExperimentalCollector,
                                               frames[Len(frames)].definition))
    /\ frames' = Pop(frames)
    /\ UNCHANGED <<log, in_superclass, superclasses, result, pc>>
    /\ UNCHANGED <<front, file_path, file_result>>
    /\ UNCHANGED <<lvars, rvars, svars>>

\* One statement that opens no scope, handled by the lightweight walker
ExperimentalStatement(kind, name, line, c) ==
    /\ ExperimentalCanVisit
    /\ contents' = contents \o Line(Len(frames), line)
    /\ ExperimentalStore(c)
    /\ log' = Append(log, LogEntry(kind, name,
                                   Loc(StmtBegin, StmtBegin + Len(line)),
                                   <<>>, NoLoc))
    /\ UNCHANGED <<frames, in_superclass, superclasses, result, pc>>
    /\ UNCHANGED <<front, file_path, file_result>>
    /\ UNCHANGED <<lvars, rvars, svars>>

ExperimentalOnConst(node) ==
    ExperimentalStatement(
        IF fetch_const_const_name(node).ok THEN "const" ELSE "skipped_const",
        fetch_const_const_name(node).name, NodeText(node),
        experimental_on_const(ExperimentalCollector, node, StmtBegin,
                              contents \o Line(Len(frames), NodeText(node))))

ExperimentalOnSend(node) ==
    ExperimentalStatement(
        "send", node.method_name, ExprText(node),
        experimental_on_send(ExperimentalCollector, node, StmtBegin,
                             contents \o Line(Len(frames), ExprText(node))))

ExperimentalOnCasgn(node) ==
    ExperimentalStatement(
        IF fetch_casgn_name(node).ok THEN "casgn" ELSE "skipped_casgn",
        fetch_casgn_name(node).name, CasgnText(node),
        experimental_on_casgn(ExperimentalCollector, node, StmtBegin,
                              contents \o Line(Len(frames), CasgnText(node))))

ExperimentalOnMasgn(node) ==
    ExperimentalStatement(
        "masgn", <<>>, MasgnText(node),
        experimental_visit_masgn(ExperimentalCollector, node, StmtBegin,
                                 contents \o Line(Len(frames), MasgnText(node))))

ExperimentalOnDef ==
    ExperimentalStatement("def", <<"a">>, KwDef,
                          experimental_on_def(ExperimentalCollector))

\* A variant of the result for a text without a tree that leaves the path out
EmptyProcessedFile_without_path(path) == ProcessedFile(<<>>, <<>>, <<>>)

\* The result of the lightweight walker for a text without a tree
EmptyProcessedFile(path) == ProcessedFile(path, <<>>, <<>>)

\* A variant of the template front end that hands on the result of the
\* lightweight walker as it is
erb_process_from_contents_as_ruby(processed_file, path) ==
    ProcessedFile(path, processed_file.unresolved_references,
                  processed_file.definitions)

\* The template front end, applied to what the lightweight walker returns for
\* the transliterated text
erb_process_from_contents(processed_file, path) ==
    ProcessedFile(path,
                  [i \in 1..Len(processed_file.unresolved_references) |->
                      [processed_file.unresolved_references[i]
                          EXCEPT !.location = RangeDefault]],
                  <<>>)

\* process_from_contents of the lightweight walker after collector.visit(&ast)
ProcessFromContents ==
    /\ Experimental
    /\ front = "ruby"
    /\ Len(frames) = 0
    /\ file_result' = ProcessedFile(file_path, references, definitions)
    /\ pc' = "done"
    /\ UNCHANGED <<contents, frames, log, references, definitions,
                   current_namespaces, in_superclass, superclasses, result>>
    /\ UNCHANGED <<front, file_path, behavioral_change_in_namespace>>
    /\ UNCHANGED <<lvars, rvars, svars>>

\* process_from_contents of the template front end
ErbProcessFromContents ==
    /\ Experimental
    /\ front = "erb"
    /\ Len(frames) = 0
    /\ file_result' = erb_process_from_contents(
                          ProcessedFile(file_path, references, definitions), file_path)
    /\ pc' = "done"
    /\ UNCHANGED <<contents, frames, log, references, definitions,
                   current_namespaces, in_superclass, superclasses, result>>
    /\ UNCHANGED <<front, file_path, behavioral_change_in_namespace>>
    /\ UNCHANGED <<lvars, rvars, svars>>

\* Both front ends when the parser returns no tree
ProcessNoTree ==
    /\ Experimental
    /\ log = <<>>
    /\ \E text \in Unparsable : contents' = text
    /\ file_result' = IF front = "erb"
                      THEN erb_process_from_contents(EmptyProcessedFile(file_path),
                                                     file_path)
                      ELSE EmptyProcessedFile(file_path)
    /\ pc' = "no_tree"
    /\ UNCHANGED <<frames, log, references, definitions,
                   current_namespaces, in_superclass, superclasses, result>>
    /\ UNCHANGED <<front, file_path, behavioral_change_in_namespace>>
    /\ UNCHANGED <<lvars, rvars, svars>>

Paths == {<<"a", ".", "r", "b">>, <<"b", ".", "e", "r", "b">>}

ExperimentalNames == PlainConsts \cup DynamicConsts

ExperimentalSends ==
    {Send(has_one, <<Sym(<<"a", "_", "b", "s">>)>>),
     Send(has_one, <<Sym(<<"a">>),
                     Kwargs(<<Pair(Sym(class_name), Str(<<"B">>))>>)>>),
     Send(<<"p">>, <<Const(NoNode, <<"B">>)>>)}

InitExperimental ==
    /\ WalkInit
    /\ front \in {"ruby", "erb"}
    /\ file_path \in Paths
    /\ behavioral_change_in_namespace = FALSE
    /\ file_result = NoFileResult
    /\ LookupIdle
    /\ SpanIdle
    /\ RunIdle

NextExperimental ==
    \/ \E name_node \in ExperimentalNames, superclass \in Superclasses :
          ExperimentalOnClass(name_node, superclass)
    \/ \E name_node \in ExperimentalNames : ExperimentalOnModule(name_node)
    \/ ExperimentalOnScopeExit
    \/ \E node \in ExperimentalNames : ExperimentalOnConst(node)
    \/ \E node \in ExperimentalSends : ExperimentalOnSend(node)
    \/ \E node \in CasgnStatements : ExperimentalOnCasgn(node)
    \/ \E node \in MasgnStatements : ExperimentalOnMasgn(node)
    \/ ExperimentalOnDef
    \/ ProcessFromContents
    \/ ErbProcessFromContents
    \/ ProcessNoTree

SpecExperimental == InitExperimental /\ [][NextExperimental]_vars

\* A file given to any of the three front ends
InitFile ==
    /\ WalkInit
    /\ front \in {"strict", "ruby", "erb"}
    /\ file_path \in Paths
    /\ behavioral_change_in_namespace = FALSE
    /\ file_result = NoFileResult
    /\ LookupIdle
    /\ SpanIdle
    /\ RunIdle

SpecFile == InitFile /\ [][Next \/ NextExperimental]_vars

(***************************************************************************)
(* get_references: the files of the enumeration are handed to the workers  *)
(* of a parallel iterator, each file is read and walked with a collector   *)
(* of its own, and the uses of all files are collected in the order in     *)
(* which the files are finished.  The files here consist of statements     *)
(* that open no scope.                                                     *)
(***************************************************************************)
MaxFiles == 3

MaxWorkers == 2

\* An entry of the enumeration: a file that can be read, one that cannot, or
\* an error of the enumeration itself
Entry(kind, nodes) == [kind |-> kind, nodes |-> nodes]

Entries ==
    {Entry("file", <<Const(NoNode, <<"A">>), Const(NoNode, <<"B">>)>>),
     Entry("file", <<Send(has_one, <<Sym(a_bs)>>), Const(NoNode, <<"B">>)>>),
     Entry("unreadable", <<>>),
     Entry("error", <<>>)}

RECURSIVE FileText(_)
\* The text of a file, one statement per line
FileText(nodes) ==
    IF Len(nodes) = 0 THEN <<>>
    ELSE FileText(Pop(nodes)) \o Line(0, ExprText(nodes[Len(nodes)]))

\* extract_from_contents: the collector before the walk
NewCollector ==
    [references |-> <<>>,
     definitions |-> <<>>,
     current_namespaces |-> <<>>,
     in_superclass |-> FALSE,
     superclasses |-> <<>>]

\* collector.visit(&ast) for the i-th statement of the file
VisitStatement(c, nodes, i) ==
    visit(c, nodes[i], Len(FileText(SubSeq(nodes, 1, i - 1))), FileText(nodes))

RECURSIVE VisitStatements(_, _, _)
VisitStatements(c, nodes, i) ==
    IF i > Len(nodes) THEN c
    ELSE VisitStatements(VisitStatement(c, nodes, i), nodes, i + 1)

\* extract_from_contents for a file alone
extract_from_contents(nodes) ==
    LET c == VisitStatements(NewCollector, nodes, 1)
    IN  FilterLocal(c.references, c.definitions)

\* A variant of the collection that keeps the uses of the last file only
flat_map_collect_last(so_far, uses) == uses

\* flat_map(..).collect(): the uses of a finished file join the others
flat_map_collect(so_far, uses) == so_far \o uses

Task(entry) ==
    [kind |-> entry.kind, nodes |-> entry.nodes, state |-> "queued",
     next |-> 1, collector |-> NewCollector]

Walking == {i \in 1..Len(tasks) : tasks[i].state = "walking"}

InitRun ==
    /\ WalkInit
    /\ front = "strict"
    /\ file_path = <<>>
    /\ behavioral_change_in_namespace = FALSE
    /\ file_result = NoFileResult
    /\ LookupIdle
    /\ SpanIdle
    /\ \E n \in 2..MaxFiles :
          \E entries \in [1..n -> Entries] :
              tasks = [i \in 1..n |-> Task(entries[i])]
    /\ collected = <<>>
    /\ status = "running"
    /\ workers \in 1..MaxWorkers

\* A variant in which a file that cannot be read is passed over
TakeEntry_skip_unreadable(i) ==
    /\ status = "running"
    /\ tasks[i].state = "queued"
    /\ Cardinality(Walking) < workers
    /\ tasks' = [tasks EXCEPT ![i].state =
                    IF tasks[i].kind = "file" THEN "walking" ELSE "done"]
    /\ UNCHANGED <<collected, status, workers>>
    /\ UNCHANGED <<wvars, lvars, xvars, svars>>

\* A free worker takes an entry of the enumeration: an error entry and a file
\* that cannot be read panic, which ends the run
TakeEntry(i) ==
    /\ status = "running"
    /\ tasks[i].state = "queued"
    /\ Cardinality(Walking) < workers
    /\ IF tasks[i].kind = "file"
       THEN /\ tasks' = [tasks EXCEPT ![i].state = "walking"]
            /\ UNCHANGED status
       ELSE /\ status' = "panicked"
            /\ UNCHANGED tasks
    /\ UNCHANGED <<collected, workers>>
    /\ UNCHANGED <<wvars, lvars, xvars, svars>>

\* The walk of file i visits its next statement
WalkEntry(i) ==
    /\ status = "running"
    /\ tasks[i].state = "walking"
    /\ tasks[i].next <= Len(tasks[i].nodes)
    /\ tasks' = [tasks EXCEPT
                    ![i].collector = VisitStatement(@, tasks[i].nodes, tasks[i].next),
                    ![i].next = @ + 1]
    /\ UNCHANGED <<collected, status, workers>>
    /\ UNCHANGED <<wvars, lvars, xvars, svars>>

\* extract_from_contents returns the uses of file i, which are collected
CollectEntry(i) ==
    /\ status = "running"
    /\ tasks[i].state = "walking"
    /\ tasks[i].next > Len(tasks[i].nodes)
    /\ collected' = flat_map_collect(
                        collected,
                        FilterLocal(tasks[i].collector.references,
                                    tasks[i].collector.definitions))
    /\ tasks' = [tasks EXCEPT ![i].state = "done"]
    /\ UNCHANGED <<status, workers>>
    /\ UNCHANGED <<wvars, lvars, xvars, svars>>

\* get_references returns what was collected
ReturnReferences ==
    /\ status = "running"
    /\ \A i \in 1..Len(tasks) : tasks[i].state = "done"
    /\ status' = "returned"
    /\ UNCHANGED <<tasks, collected, workers>>
    /\ UNCHANGED <<wvars, lvars, xvars, svars>>

NextRun ==
    \/ \E i \in 1..Len(tasks) : TakeEntry(i)
    \/ \E i \in 1..Len(tasks) : WalkEntry(i)
    \/ \E i \in 1..Len(tasks) : CollectEntry(i)
    \/ ReturnReferences

SpecRun == InitRun /\ [][NextRun]_vars

(***************************************************************************)
(* loc_to_range on its own: a text of letters and line breaks, and the Loc *)
(* of a token in it, whose first character is no line break.               *)
(***************************************************************************)
MaxText == 5

Texts ==
    UNION {[1..n -> {"a", Nl}] : n \in 0..MaxText}

InitSpan ==
    /\ contents \in Texts
    /\ frames = <<>>
    /\ log = <<>>
    /\ references = <<>>
    /\ definitions = <<>>
    /\ current_namespaces = <<>>
    /\ in_superclass = FALSE
    /\ superclasses = <<>>
    /\ result = <<>>
    /\ pc = "span"
    /\ front = "strict"
    /\ file_path = <<>>
    /\ behavioral_change_in_namespace = FALSE
    /\ file_result = NoFileResult
    /\ LookupIdle
    /\ RunIdle
    /\ SpanIdle

\* loc_to_range(loc, &lookup) for the token from begin to end
LocToRange(begin, end) ==
    /\ pc = "span"
    /\ begin < end
    /\ contents[begin + 1] # Nl
    /\ span_loc' = Loc(begin, end)
    /\ span_range' = loc_to_range(Loc(begin, end), contents)
    /\ pc' = "spanned"
    /\ UNCHANGED <<contents, frames, log, references, definitions,
                   current_namespaces, in_superclass, superclasses, result>>
    /\ UNCHANGED <<lvars, xvars, rvars>>

NextSpan ==
    \E begin \in 0..MaxText, end \in 0..Len(contents) : LocToRange(begin, end)

SpecSpan == InitSpan /\ [][NextSpan]_vars

(***************************************************************************)
(* Properties of the lookup functions, checked under SpecLookup.           *)
(***************************************************************************)
\* The scope-qualified prefix of the first n names of a scope path
Prefix(path, n) == Join(SubSeq(path, 1, n), Sep)

\* The candidates of a use as the design states them: the use's own name
\* alone when it is root-anchored, otherwise the bare name followed by the
\* root-anchored combinations with the prefixes of its scope path, longest
\* prefix first
ExpectedCandidates(u) ==
    IF StartsWith(u.name, Sep) THEN <<u.name>>
    ELSE <<u.name>> \o
         [i \in 1..Len(u.namespace_path) |->
             Sep \o Prefix(u.namespace_path, Len(u.namespace_path) + 1 - i)
                 \o Sep \o u.name]

\* C1: for scope names n1..nk, outermost first, calculate_module_nesting
\* returns exactly k entries, and entry i (counted from 0) is n1::...::n(k-i):
\* the cumulative prefixes, innermost first.
C1_NestingInnermostFirst ==
    stage \in {"nested", "expanded", "resolved"} =>
        /\ Len(nesting) = Len(use.namespace_path)
        /\ \A i \in 1..Len(nesting) :
               nesting[i] = Prefix(use.namespace_path, Len(nesting) + 1 - i)

\* [A, B, A] has been expanded to [A::B::A, A::B, A]
C1_Witness ==
    /\ stage = "nested"
    /\ use.namespace_path = << <<"A">>, <<"B">>, <<"A">> >>
    /\ nesting = << <<"A", ":", ":", "B", ":", ":", "A">>,
                    <<"A", ":", ":", "B">>, <<"A">> >>

\* C2: a root-anchored name expands to itself alone; any other name N with
\* scope path P expands to N followed by ::p::N for the prefixes p of P from
\* the innermost to the outermost, 1 + Len(P) entries with the bare name first.
C2_CandidateExpansion ==
    stage \in {"expanded", "resolved"} =>
        IF StartsWith(use.name, Sep)
        THEN candidates = <<use.name>>
        ELSE /\ Len(candidates) = 1 + Len(use.namespace_path)
             /\ candidates[1] = use.name
             /\ \A i \in 1..Len(use.namespace_path) :
                    candidates[i + 1] =
                        Sep \o Prefix(use.namespace_path,
                                      Len(use.namespace_path) + 1 - i)
                            \o Sep \o use.name

\* B under [A, A::B] has been expanded to three candidates, and ::A under a
\* scope path that is not empty to itself
C2_Witness ==
    /\ stage = "expanded"
    /\ \/ /\ use.name = <<"B">>
          /\ use.namespace_path = << <<"A">>, <<"A", ":", ":", "B">> >>
          /\ Len(candidates) = 3
          /\ candidates[2] =
                 <<":", ":", "A", ":", ":", "A", ":", ":", "B", ":", ":", "B">>
       \/ /\ use.name = <<":", ":", "A">>
          /\ Len(use.namespace_path) = 2
          /\ candidates = <<use.name>>

KeysTried ==
    LET expected == ExpectedCandidates(use)
    IN  IF strategy = "aggregated_definitions"
        THEN [k \in 1..(2 * Len(expected)) |->
                 IF k % 2 = 1 THEN expected[(k + 1) \div 2]
                 ELSE Sep \o expected[k \div 2]]
        ELSE expected

Indices(seq) == 1..Len(seq)

Last(seq) == seq[Len(seq)]

\* The step visits one more statement
Visits(kinds) == Len(log') = Len(log) + 1 /\ Last(log').kind \in kinds

Declarations == {i \in Indices(log) : log[i].kind \in {"class", "module"}}

\* The span of the name of the declaration logged at i
NameSpan(i) == loc_to_range(log[i].loc, contents)

\* The fully-qualified name of the declaration logged at i
DeclaredName(i) == Sep \o Join(Append(log[i].lex, log[i].name), Sep)

IsSelfUse(r) == \E i \in Declarations : r.location = NameSpan(i)

DefinedNames == {definitions[i].fully_qualified_name : i \in Indices(definitions)}

\* Some candidate of r, or its root-anchored variant, is defined in the file
ResolvesLocally(r) ==
    \E i \in Indices(ExpectedCandidates(r)) :
        \/ ExpectedCandidates(r)[i] \in DefinedNames
        \/ Sep \o ExpectedCandidates(r)[i] \in DefinedNames

\* C3: the self-use emitted for a class or module declaration, whose name is
\* the declared fully-qualified name and whose span is the span of the
\* declaration's name, is in the result of extract_from_contents, whatever
\* else the file declares and uses.
C3_SelfUseNeverFiltered ==
    pc = "done" =>
        \A i \in Declarations :
            \E j \in Indices(result) :
                /\ result[j].name = DeclaredName(i)
                /\ result[j].location = NameSpan(i)

\* C4: a use that is not the self-use of a declaration and one of whose
\* candidates, or its root-anchored variant, names a definition of the same
\* file is not in the result of extract_from_contents.
C4_LocalUsesDropped ==
    pc = "done" =>
        \A i \in Indices(references) :
            (~IsSelfUse(references[i]) /\ ResolvesLocally(references[i]))
                => \A j \in Indices(result) : result[j] # references[i]

\* B, used inside A after A::B was declared there, was dropped, and the two
\* self-uses were kept
C4_Witness ==
    /\ pc = "done"
    /\ Len(result) = 2
    /\ \E i \in Indices(references) :
           /\ references[i].name = <<"B">>
           /\ references[i].namespace_path = << <<"A">> >>
           /\ ~IsSelfUse(references[i])
           /\ ResolvesLocally(references[i])

\* C6: entering a class or module declared with the static name N while the
\* scope stack is S emits exactly one definition and exactly one use, both
\* named :: followed by the names of S and N joined by ::, both with the scope
\* path S followed by N, both located at the span of the name; N is pushed as
\* one segment, also when it is a compact name such as A::B.
C6_DeclarationEntry ==
    [][Visits({"class", "module"}) =>
          LET e == Last(log')
              N == SubSeq(contents', e.loc.begin + 1, e.loc.end)
              S == current_namespaces
              fqn == Sep \o Join(Append(S, N), Sep)
              span == loc_to_range(e.loc, contents')
              added == {j \in Indices(references') \ Indices(references) :
                           references'[j].location = span}
          IN  /\ current_namespaces' = Append(S, N)
              /\ definitions' = Append(definitions, Definition(fqn, Append(S, N), span))
              /\ SubSeq(references', 1, Len(references)) = references
              /\ Cardinality(added) = 1
              /\ \A j \in added : references'[j] = Reference(fqn, Append(S, N), span)
       ]_vars

\* A::B was declared inside A, with a superclass
C6_Witness ==
    /\ Len(frames) = 2
    /\ frames[2].kind = "class"
    /\ Len(frames[2].super_name) > 0
    /\ current_namespaces = << <<"A">>, <<"A", ":", ":", "B">> >>
    /\ Last(definitions).fully_qualified_name =
           <<":", ":", "A", ":", ":", "A", ":", ":", "B">>
    /\ Last(references).name = Last(definitions).fully_qualified_name
    /\ Last(references).location = Last(definitions).location
    /\ Len(references) = 3

\* C7: a constant used as a statement inside a class body, whose name is the
\* superclass name declared by an enclosing class that is still being
\* traversed, is emitted with the scope path captured when that superclass
\* was declared, not with the scope stack at the point of the use.
C7_EnclosingSuperclassName ==
    [][Visits({"const"}) =>
          LET e == Last(log')
              declaring == {k \in Indices(e.links) : e.links[k].name = e.name}
          IN  declaring # {} =>
                  /\ Len(references') = Len(references) + 1
                  /\ \E k \in declaring :
                         Last(references').namespace_path = e.links[k].namespace_path
       ]_vars

\* The span of the superclass of the class logged at i
SuperSpan(i) == loc_to_range(log[i].super_loc, contents)

\* Entering a class with a static superclass emits the use of the superclass
\* name with the given scope path, and then the self-use of the class
EmitsSuperclassUse(namespace_path) ==
    LET e == Last(log')
        n == Len(references)
    IN  /\ Len(references') = n + 2
        /\ SubSeq(references', 1, n) = references
        /\ references'[n + 1] =
               Reference(e.super_name, namespace_path,
                         loc_to_range(e.super_loc, contents'))
        /\ references'[n + 2].location = loc_to_range(e.loc, contents')

\* In the result the superclass use of a class comes before its self-use, and
\* both come before the uses on the lines after the class header, which are
\* the lines its body is on
SuperclassUseOrder ==
    pc = "done" =>
        \A i \in Declarations :
            (log[i].kind = "class" /\ Len(log[i].super_name) > 0) =>
                \A j, k \in Indices(result) :
                    /\ (result[j].location = SuperSpan(i)
                        /\ result[k].location = NameSpan(i)) => j < k
                    /\ (result[j].location \in {SuperSpan(i), NameSpan(i)}
                        /\ result[k].location.start_row > NameSpan(i).start_row)
                           => j < k

\* The scope path given to the superclass use of a class that is being
\* entered: the path of the first link with that name which an enclosing class
\* left on the link stack, the scope stack if there is none
SuperclassUsePath(name) ==
    LET recorded == {i \in Indices(superclasses) : superclasses[i].name = name}
    IN  IF recorded = {} THEN current_namespaces
        ELSE superclasses[CHOOSE i \in recorded : \A j \in recorded : i <= j].namespace_path

\* C8 as stated: a class declared with a statically named superclass yields a
\* use of the superclass name whose scope path is the scope stack enclosing
\* the class declaration, and in the result this use comes before the self-use
\* of the class, which comes before every use found in the class body.
C8_SuperclassUseEnclosingPath ==
    /\ [][(Visits({"class"}) /\ Len(Last(log').super_name) > 0)
              => EmitsSuperclassUse(current_namespaces)]_vars
    /\ []SuperclassUseOrder

\* C8, amended: the scope path of the superclass use is the scope stack
\* enclosing the class declaration unless a link with the same superclass name,
\* recorded by an enclosing class declaration, is still on the link stack; then
\* it is the scope path captured by the earliest such link.  The order of the
\* superclass use, the self-use and the uses of the body is as stated.
C8_SuperclassUseRecordedPath ==
    /\ [][(Visits({"class"}) /\ Len(Last(log').super_name) > 0)
              => EmitsSuperclassUse(SuperclassUsePath(Last(log').super_name))]_vars
    /\ []SuperclassUseOrder

\* a class with superclass B was declared in the body of a class A with
\* superclass B, and its superclass use got the path of the outer declaration
C8_Witness ==
    /\ Len(frames) = 2
    /\ frames[1].super_name = <<"B">>
    /\ frames[2].super_name = <<"B">>
    /\ frames[2].super_path = << <<"A">> >>
    /\ Len(references) = 4
    /\ references[3].name = <<"B">>
    /\ references[3].namespace_path = <<>>

\* The call written by the statement visited last
CallAt(e, text) ==
    CHOOSE node \in SendStatements :
        ExprText(node) = SubSeq(text, e.loc.begin + 1, e.loc.end)

\* The uses a step adds at the span of the whole call
InferredUses ==
    LET span == loc_to_range(Last(log').loc, contents')
        added == SubSeq(references', Len(references) + 1, Len(references'))
    IN  SelectSeq(added, LAMBDA r : r.location = span)

\* The keyword arguments of a call
Keywords(node) ==
    IF Len(node.args) > 0 /\ Last(node.args).type = "Kwargs"
    THEN Last(node.args).pairs
    ELSE <<>>

\* The class_name entries with a literal string value
ClassNameLiterals(node) ==
    SelectSeq(Keywords(node),
              LAMBDA pair : /\ pair.key.type = "Sym"
                            /\ pair.key.name = class_name
                            /\ pair.value.type = "Str")

\* C9: for a call to has_one, has_many, belongs_to or
\* has_and_belongs_to_many, a class_name entry with a literal string value
\* decides the inferred use; otherwise, if the first positional argument is a
\* literal symbol, also when keyword arguments without class_name are present,
\* exactly one use named by the PascalCase-singular form of the symbol is
\* emitted; otherwise none.  A call to another method emits no inferred use.
C9_InferenceOrder ==
    [][Visits({"send"}) =>
          LET node == CallAt(Last(log'), contents')
          IN  IF node.method_name \notin Associations
              THEN InferredUses = <<>>
              ELSE IF Len(ClassNameLiterals(node)) > 0
              THEN Len(InferredUses) = 1
              ELSE IF Len(node.args) > 0 /\ node.args[1].type = "Sym"
              THEN /\ Len(InferredUses) = 1
                   /\ InferredUses[1].name = to_class_case(node.args[1].name)
              ELSE InferredUses = <<>>
       ]_vars

\* C10: when a relationship declaration carries class_name: v with a literal
\* string v, the one inferred use is named exactly v, its scope path is the
\* current scope stack and its span is the whole call; the first positional
\* symbol adds no other use.
C10_ClassNameVerbatim ==
    [][Visits({"send"}) =>
          LET node == CallAt(Last(log'), contents')
          IN  (node.method_name \in Associations /\ Len(ClassNameLiterals(node)) = 1)
                  => InferredUses =
                         <<Reference(ClassNameLiterals(node)[1].value.value,
                                     current_namespaces,
                                     loc_to_range(Last(log').loc, contents'))>>
       ]_vars

\* C11: a class declaration, and equally a module declaration, whose name has
\* a segment that is not statically known is skipped without failing: nothing
\* is emitted for it, the scope stack is unchanged and the walk goes on.
C11_DynamicDeclarationSkipped ==
    [][Visits({"skipped_class", "skipped_module"}) =>
          /\ pc' = "walk"
          /\ UNCHANGED <<references, definitions, current_namespaces, frames>>
       ]_vars

\* What the source text says at the place of a visited statement
Written(e, text) == SubSeq(text, e.loc.begin + 1, e.loc.end)

\* The statement e is a reference with a dynamically computed segment that
\* stands on a line of its own
IsDynamicReference(e, text) ==
    /\ \E node \in DynamicConsts \cup UnhandledConsts :
           Written(e, text) = NodeText(node)
    /\ \A j \in 1..e.loc.begin :
           (\A k \in j..e.loc.begin : text[k] # Nl) => text[j] = " "

\* C12: a reference whose name has a dynamically computed segment produces no
\* use and no error: the walk goes on with the collector as it was, so the
\* other uses and definitions are those of the file without the reference, and
\* the result for a file of such references alone is empty.
C12_DynamicReferenceSkipped ==
    /\ [][(Len(log') = Len(log) + 1 /\ IsDynamicReference(Last(log'), contents')) =>
             /\ pc' = "walk"
             /\ UNCHANGED <<references, definitions, current_namespaces,
                            in_superclass, superclasses, frames>>
          ]_vars
    /\ []((/\ pc = "done"
           /\ \A i \in Indices(log) : IsDynamicReference(log[i], contents))
              => result = <<>>)

\* C20: at every point of a traversal the link stack holds exactly the links
\* recorded by the enclosing class declarations that are still being traversed
\* and declared a superclass; in particular it is empty after the traversal.
C20_LinkLifetime ==
    pc \in {"walk", "done"} => superclasses = LexLinks

\* What a step adds to the uses and to the definitions
NewReferences == SubSeq(references', Len(references) + 1, Len(references'))

NewDefinitions == SubSeq(definitions', Len(definitions) + 1, Len(definitions'))

KeepsEarlier ==
    /\ SubSeq(references', 1, Len(references)) = references
    /\ SubSeq(definitions', 1, Len(definitions)) = definitions

RECURSIVE ConstantsIn(_)
RECURSIVE ConstantsInAll(_)
\* The constants written in an expression, in the order they are written
ConstantsIn(node) ==
    CASE node.type = "Const" -> <<NodeText(node)>>
      [] node.type = "Array" -> ConstantsInAll(node.elements)
      [] OTHER -> <<>>

ConstantsInAll(items) ==
    IF Len(items) = 0 THEN <<>>
    ELSE ConstantsIn(Head(items)) \o ConstantsInAll(Tail(items))

\* The target of an assignment is written with static segments only
TargetIsStatic(node) ==
    \/ node.scope.type \in {"None", "Cbase"}
    \/ node.scope \in StaticConsts

\* The name the definition of an assignment target gets under the scope stack
TargetName(node) ==
    Sep \o Join(Append(current_namespaces, CasgnTarget(node)), Sep)

\* A step visits the assignment `node`, written on a line of its own
VisitsWritten(text) ==
    /\ Len(log') = Len(log) + 1
    /\ Last(log').loc.begin = StmtBegin
    /\ Written(Last(log'), contents') = text

\* What the visit of a single assignment does: for a static target one
\* definition and the uses of the constants of the value, for a dynamic
\* target nothing
SingleAssignment(node) ==
    /\ KeepsEarlier
    /\ IF TargetIsStatic(node)
       THEN /\ Len(NewDefinitions) = 1
            /\ NewDefinitions[1].fully_qualified_name = TargetName(node)
            /\ [i \in Indices(NewReferences) |-> NewReferences[i].name]
                   = ConstantsIn(node.value)
       ELSE NewDefinitions = <<>> /\ NewReferences = <<>>

\* C17: a constant assignment with the static target T under the
\* scope stack S emits one definition named :: + join(S ++ [T], ::) and no use
\* of the target; the uses inside a single value are collected; in a
\* multi-target assignment the definition is recorded and the uses inside the
\* value are not collected; a dynamic target emits nothing.
C17_ConstantAssignment ==
    [][/\ \A node \in CasgnStatements :
              VisitsWritten(CasgnText(node)) => SingleAssignment(node)
       /\ \A node \in MasgnStatements :
              VisitsWritten(MasgnText(node)) =>
                  /\ KeepsEarlier
                  /\ Len(NewDefinitions) >= 1
                  /\ NewDefinitions[1].fully_qualified_name = TargetName(node.lhs[1])
                  /\ NewReferences = <<>>
      ]_vars

(***************************************************************************)
(* Properties of the lightweight walker, checked under SpecExperimental.   *)
(***************************************************************************)
\* The step closes the innermost open scope
ScopeCloses == Len(frames') = Len(frames) - 1

\* The declaration that opened the innermost open scope
OpenedAt ==
    CHOOSE i \in Declarations :
        /\ Len(log[i].lex) = Len(frames) - 1
        /\ \A j \in Declarations : Len(log[j].lex) = Len(frames) - 1 => j <= i

\* A method definition stands directly in the body of the innermost open scope
DefinesMethod ==
    \E j \in Indices(log) :
        /\ j > OpenedAt
        /\ log[j].kind = "def"
        /\ Len(log[j].lex) = Len(frames)

\* The definition of the innermost open scope
ScopeDefinition ==
    ParsedDefinition(DeclaredName(OpenedAt), NameSpan(OpenedAt))

\* C14: a scope whose own body holds no method definition produces no
\* definition when it closes, whatever method definitions stand earlier in the
\* file
C14_NoDefinitionWithoutOwnMethod ==
    [][ScopeCloses /\ ~DefinesMethod => definitions' = definitions]_vars

\* C15: a scope whose own body directly holds a method definition produces
\* its definition when it closes, whatever scopes were nested in it
C15_DefinitionWithOwnMethod ==
    [][ScopeCloses /\ DefinesMethod
          => definitions' = Append(definitions, ScopeDefinition)]_vars

\* What process_from_contents of the lightweight walker returns for the text
\* walked
PlainResult == ProcessedFile(file_path, references, definitions)

\* C16: the result of the template front end has the given path, no
\* definitions, and the uses of the lightweight walker for the transliterated
\* text, in order, with their names and scope paths and the default span
C16_TemplateResult ==
    (front = "erb" /\ pc = "done") =>
        /\ file_result.absolute_path = file_path
        /\ file_result.definitions = <<>>
        /\ Len(file_result.unresolved_references)
              = Len(PlainResult.unresolved_references)
        /\ \A i \in Indices(PlainResult.unresolved_references) :
              file_result.unresolved_references[i]
                 = [name |-> PlainResult.unresolved_references[i].name,
                    namespace_path |->
                        PlainResult.unresolved_references[i].namespace_path,
                    location |-> RangeDefault]

C16_Witness ==
    /\ front = "erb"
    /\ pc = "done"
    /\ Len(PlainResult.definitions) > 0
    /\ Len(PlainResult.unresolved_references) = 2
    /\ PlainResult.unresolved_references[1].name
          # PlainResult.unresolved_references[2].name
    /\ PlainResult.unresolved_references[2].namespace_path # <<>>
    /\ PlainResult.unresolved_references[2].location # RangeDefault
    /\ Len(file_result.unresolved_references) = 2

(***************************************************************************)
(* Properties of all three front ends, checked under SpecFile.             *)
(***************************************************************************)
\* C13: a text without a syntax tree gives an empty result and no failure:
\* no uses from the strict walker, and from the lightweight walker and the
\* template front end a result with the given path, no uses and no
\* definitions
C13_NoTreeEmptyResult ==
    pc = "no_tree" =>
        IF front = "strict"
        THEN result = <<>>
        ELSE file_result = [absolute_path |-> file_path,
                            unresolved_references |-> <<>>,
                            definitions |-> <<>>]

C13_Witness ==
    /\ pc = "no_tree"
    /\ front = "erb"
    /\ contents = <<")", Nl>>
    /\ file_result.absolute_path = <<"b", ".", "e", "r", "b">>

(***************************************************************************)
(* Properties of a run over many files, checked under SpecRun.             *)
(***************************************************************************)
\* C18: when an entry of the enumeration is an error or a file that cannot
\* be read, the run never returns a result: it returns only when every entry
\* is a file that was read and walked to its end
C18_UnreadableAborts ==
    /\ status = "returned" =>
          \A i \in Indices(tasks) : tasks[i].kind = "file" /\ tasks[i].state = "done"
    /\ (\E i \in Indices(tasks) : tasks[i].kind # "file") => status # "returned"
    /\ status = "panicked" =>
          \E i \in Indices(tasks) : tasks[i].kind # "file" /\ tasks[i].state = "queued"

C18_Witness ==
    /\ status = "panicked"
    /\ \E i, j \in Indices(tasks) :
          /\ tasks[i].kind = "unreadable"
          /\ tasks[j].kind = "file"
          /\ tasks[j].state = "done"
    /\ Len(collected) > 0

RECURSIVE UsesOfAll(_)
\* The uses each file produces when it is processed alone, file by file
UsesOfAll(entries) ==
    IF Len(entries) = 0 THEN <<>>
    ELSE UsesOfAll(Pop(entries)) \o extract_from_contents(Last(entries).nodes)

Occurrences(seq, x) == Cardinality({i \in Indices(seq) : seq[i] = x})

SameMultiset(s, t) ==
    /\ Len(s) = Len(t)
    /\ \A i \in Indices(s) : Occurrences(s, s[i]) = Occurrences(t, s[i])

\* C19: whatever the number of workers and the order in which the files are
\* taken, walked and finished, the uses returned are, as a multiset, the
\* uses the files produce when each is processed alone
C19_ParallelSameUses ==
    status = "returned" => SameMultiset(collected, UsesOfAll(tasks))

C19_Witness ==
    /\ status = "returned"
    /\ workers = 2
    /\ Len(tasks) = 3
    /\ tasks[1].nodes # tasks[2].nodes
    /\ collected # UsesOfAll(tasks)
    /\ Len(collected) = 6

(***************************************************************************)
(* Scope paths of references, spans and names: properties of the strict    *)
(* walker checked under Spec, of both walkers under SpecFile.              *)
(***************************************************************************)
\* The links on the link stack that carry the name
LinksNamed(name) == {i \in Indices(superclasses) : superclasses[i].name = name}

\* What the lightweight walker emits for the reference `node` under the same
\* scope stack, at the same place of the same text
ExperimentalUse(node) ==
    Last(experimental_on_const(
             [references |-> <<>>, definitions |-> <<>>,
              current_namespaces |-> current_namespaces,
              behavioral_change_in_namespace |-> FALSE],
             node, StmtBegin, contents').references)

\* C21: for a reference named N while no link on the link stack has the name
\* N, the strict walker emits the scope path of the lightweight walker, the
\* scope stack without the entries equal to N in their order; and when a link
\* has the name N the reference takes the captured path of such a link, so the
\* exception to the removal never decides a path
C21_SameScopePathAsLightweight ==
    [][\A node \in StaticConsts :
          VisitsWritten(NodeText(node)) =>
              /\ KeepsEarlier
              /\ Len(NewReferences) = 1
              /\ NewReferences[1].name = NodeText(node)
              /\ IF LinksNamed(NodeText(node)) = {}
                 THEN /\ NewReferences[1].namespace_path
                            = SelectSeq(current_namespaces,
                                        LAMBDA s : s # NodeText(node))
                      /\ NewReferences[1] = ExperimentalUse(node)
                 ELSE \E i \in LinksNamed(NodeText(node)) :
                          NewReferences[1].namespace_path
                              = superclasses[i].namespace_path
      ]_vars

\* A was referred to in the body of a class A within a module B, no link
\* being recorded
C21_Witness ==
    /\ LexNames = << <<"B">>, <<"A">> >>
    /\ superclasses = <<>>
    /\ Len(log) = 3
    /\ log[3].kind = "const"
    /\ Written(log[3], contents) = <<"A">>
    /\ Last(references).name = <<"A">>
    /\ Last(references).namespace_path = << <<"B">> >>

(***************************************************************************)
(* Properties of loc_to_range, checked under SpecSpan.                     *)
(***************************************************************************)
RECURSIVE Position(_, _)
\* The 1-based row and column of the character at a 0-based offset, counted
\* from the start of the text
Position(text, offset) ==
    IF offset = 0 THEN <<1, 1>>
    ELSE LET before == Position(text, offset - 1)
         IN  IF text[offset] = Nl THEN <<before[1] + 1, 1>>
             ELSE <<before[1], before[2] + 1>>

\* The token is on one line
SingleLine ==
    \A i \in (span_loc.begin + 1)..span_loc.end : contents[i] # Nl

\* C22: the span of a token that starts at 1-based (r, c) and whose exclusive
\* end is at 1-based (r2, c2) is start_row r, start_col c - 1, end_row r2,
\* end_col c2; the start column is no less than 0, and a token of length L on
\* one line at the 0-based column k gets the columns k to k + L + 1
C22_SpanComputation ==
    pc = "spanned" =>
        LET first == Position(contents, span_loc.begin)
            beyond == Position(contents, span_loc.end)
        IN  /\ span_range = [start_row |-> first[1], start_col |-> first[2] - 1,
                             end_row |-> beyond[1], end_col |-> beyond[2]]
            /\ span_range.start_col >= 0
            /\ SingleLine =>
                  /\ span_range.end_row = span_range.start_row
                  /\ span_range.end_col
                        = span_range.start_col + (span_loc.end - span_loc.begin) + 1

\* A token of two letters on the second line of a text, at the column 1
C22_Witness ==
    /\ pc = "spanned"
    /\ contents = <<"a", Nl, "a", "a", "a">>
    /\ span_loc = Loc(3, 5)
    /\ span_range = [start_row |-> 2, start_col |-> 1, end_row |-> 2, end_col |-> 4]

(***************************************************************************)
(* Further properties of the strict walker, checked under Spec.            *)
(***************************************************************************)
\* C23: the definition emitted for a constant assignment carries the span of
\* the assignment target: it ends where the target name ends and covers
\* neither the assignment operator nor the assigned expression
C23_DefinitionSpanIsTarget ==
    [][\A node \in CasgnStatements :
          (VisitsWritten(CasgnText(node)) /\ TargetIsStatic(node)) =>
              /\ Len(NewDefinitions) = 1
              /\ NewDefinitions[1].location
                    = loc_to_range(Loc(StmtBegin,
                                       StmtBegin + Len(CasgnTarget(node))),
                                   contents')
      ]_vars

(***************************************************************************)
(* The scope stack in both walkers, checked under SpecFile.                *)
(***************************************************************************)
\* C24: at every visited node the scope stack holds the declared names of the
\* class and module declarations with a static name whose bodies enclose the
\* node, outermost first; a declaration that is skipped for its dynamic name
\* leaves the stack alone, and the stack is empty when the traversal ends
C24_ScopeStackDiscipline ==
    /\ [](pc \in {"walk", "done"} => current_namespaces = LexNames)
    /\ [](pc = "done" => current_namespaces = <<>>)
    /\ [][Visits({"skipped_class", "skipped_module"})
             => UNCHANGED current_namespaces]_vars

\* The lightweight walker has left a module in a class, in which it had found
\* a reference, and has ended its traversal
C24_Witness ==
    /\ pc = "done"
    /\ front = "ruby"
    /\ Len(log) = 3
    /\ log[1].kind = "class"
    /\ log[2].kind = "module"
    /\ log[3].kind = "const"
    /\ log[3].lex = << <<"A">>, <<"B">> >>
    /\ Last(references).name = <<"B">>
    /\ Last(references).namespace_path = << <<"A">> >>
    /\ current_namespaces = <<>>

(***************************************************************************)
(* The filtering pass of the strict variant, checked under Spec.           *)
(***************************************************************************)
RECURSIVE Restrict(_, _)
\* The entries of a sequence at the indices of a set, in their order
Restrict(seq, kept) ==
    IF Len(seq) = 0 THEN <<>>
    ELSE Restrict(Pop(seq), kept)
             \o (IF Len(seq) \in kept THEN <<Last(seq)>> ELSE <<>>)

\* The uses of the walker none of whose candidates, nor its root-anchored
\* variant, names a definition of the file
ExternalUses == {i \in Indices(references) : ~ResolvesLocally(references[i])}

\* C25: the result of extract_from_contents is the uses of the walker, each
\* as the walker emitted it and in the walker's order, without some of them,
\* and every use none of whose candidates names a definition of the file is
\* among those kept
C25_FilterOnlyRemovesLocal ==
    pc = "done" =>
        \E kept \in SUBSET Indices(references) :
            /\ ExternalUses \subseteq kept
            /\ result = Restrict(references, kept)

\* Of four uses one was dropped, and a use that names nothing defined in the
\* file was kept
C25_Witness ==
    /\ pc = "done"
    /\ Len(references) = 4
    /\ Len(result) = 3
    /\ \E i \in ExternalUses : ~IsSelfUse(references[i])
    /\ \E i \in Indices(references) : i \notin ExternalUses /\ ~IsSelfUse(references[i])

(***************************************************************************)
(* Several links of one name, checked under Spec.                          *)
(***************************************************************************)
\* A step visits a reference to `name`, written on a line of its own, while
\* the link stack holds more than one link of that name
RefersUnderSeveralLinks(name) ==
    /\ VisitsWritten(name)
    /\ Cardinality(LinksNamed(name)) > 1

\* C26 as stated: when several active links have the same superclass name N,
\* as recorded by nested classes that each declare the superclass N, a
\* reference to N in the body of the innermost class takes the scope path
\* captured by the innermost of these classes
C26_InnermostLinkPath ==
    [][\A node \in PlainConsts :
          (RefersUnderSeveralLinks(NodeText(node)) /\ superclasses = LexLinks) =>
              /\ Len(NewReferences) = 1
              /\ NewReferences[1].namespace_path
                    = superclasses[SetMax(LinksNamed(NodeText(node)))].namespace_path
      ]_vars

\* C26, amended: the reference takes the scope path captured by the outermost
\* of these classes, the link of the name that was recorded first
C26_OutermostLinkPath ==
    [][\A node \in PlainConsts :
          RefersUnderSeveralLinks(NodeText(node)) =>
              /\ Len(NewReferences) = 1
              /\ NewReferences[1].name = NodeText(node)
              /\ \E first \in LinksNamed(NodeText(node)) :
                    /\ \A i \in LinksNamed(NodeText(node)) : first <= i
                    /\ NewReferences[1].namespace_path
                          = superclasses[first].namespace_path
      ]_vars

\* B was referred to in the body of a class with the superclass B that is
\* nested in a class A with the superclass B
C26_Witness ==
    /\ Len(frames) = 2
    /\ Len(log) = 3
    /\ log[3].kind = "const"
    /\ Written(log[3], contents) = <<"B">>
    /\ superclasses = <<SuperclassReference(<<"B">>, <<>>),
                        SuperclassReference(<<"B">>, << <<"A">> >>)>>
    /\ Last(references).name = <<"B">>
    /\ Last(references).namespace_path = <<>>

(***************************************************************************)
(* What is lost with a skipped node, checked under Spec.                   *)
(***************************************************************************)
\* The reference x(B)::A
ScopedByCall ==
    Const([DynSend EXCEPT !.args = <<Const(NoNode, <<"B">>)>>], <<"A">>)

\* The declaration class x::A < B
SkippedClassHeader ==
    KwClass \o NodeText(Const(DynSend, <<"A">>)) \o KwLt \o <<"B">>

\* The assignment x::A = B
SkippedAssignment == Casgn(DynSend, <<"A">>, Const(NoNode, <<"B">>))

\* A step visits one of the three: the constant B stands in the call that
\* forms the scope of a reference, in the superclass expression of a class
\* with a dynamic name, or in the value assigned to a dynamic target
VisitsSkippedWithConstant ==
    \/ VisitsWritten(NodeText(ScopedByCall))
    \/ /\ Len(log') = Len(log) + 1
       /\ contents' = contents \o Line(Len(frames), SkippedClassHeader)
                               \o Line(Len(frames), KwEnd)
    \/ VisitsWritten(CasgnText(SkippedAssignment))

\* C27 as stated: skipping a node with a dynamic name loses that node only;
\* the constant B inside it still produces its use
C27_OnlySkippedNodeLost ==
    [][VisitsSkippedWithConstant =>
          /\ KeepsEarlier
          /\ [i \in Indices(NewReferences) |-> NewReferences[i].name] = << <<"B">> >>
      ]_vars

\* C27, amended: skipping a node with a dynamic name loses the node with all
\* that is written inside it; the constant B inside it produces no use, and
\* nothing else is emitted or recorded
C27_SkippedNodeLostWhole ==
    [][VisitsSkippedWithConstant =>
          /\ pc' = "walk"
          /\ UNCHANGED <<references, definitions, current_namespaces,
                         superclasses, frames>>
      ]_vars

\* class x::A < B, x::A = B and x(B)::A were visited, and no use was emitted
C27_Witness ==
    /\ Len(log) = 3
    /\ log[1].kind = "skipped_class"
    /\ SubSeq(contents, 1, Len(SkippedClassHeader)) = SkippedClassHeader
    /\ Written(log[2], contents) = CasgnText(SkippedAssignment)
    /\ Written(log[3], contents) = NodeText(ScopedByCall)
    /\ references = <<>>
    /\ pc = "walk"

(***************************************************************************)
(* The form of the names, checked under Spec.                              *)
(***************************************************************************)
\* The name begins with one separator and has no empty segment
WellAnchored(name) ==
    /\ StartsWith(name, Sep)
    /\ \A i \in 1..(Len(name) - 3) : SubSeq(name, i, i + 3) # Sep \o Sep
    /\ SubSeq(name, Len(name) - 1, Len(name)) # Sep

\* C28: the fully-qualified name of every definition, and the name of every
\* self-use, begins with exactly one :: and has no empty segment, and no
\* entry of a scope path begins with ::, also for declarations and constant
\* assignments written with a root anchor
C28_NamesWellFormed ==
    /\ \A i \in Indices(definitions) :
          /\ WellAnchored(definitions[i].fully_qualified_name)
          /\ \A k \in Indices(definitions[i].namespace_path) :
                ~StartsWith(definitions[i].namespace_path[k], Sep)
    /\ \A i \in Indices(references) :
          /\ IsSelfUse(references[i]) => WellAnchored(references[i].name)
          /\ \A k \in Indices(references[i].namespace_path) :
                ~StartsWith(references[i].namespace_path[k], Sep)

=============================================================================
